---- MODULE Spec2Model ----
(***************************************************************************)
(* A model of gpsmap: the tile cache (TileManager / Tile) with its        *)
(* concurrent GetTile callers, and the zoom state machine (MapSwitcher).  *)
(***************************************************************************)
EXTENDS Integers, Sequences, FiniteSets, TLC

\* ------------------------------------------------------------------------
\* Bounds of the model
\* ------------------------------------------------------------------------
\* Number of worker threads, and number of GetTile calls they make in all.
NumThreads == 2
MaxCalls == 2

Threads == 1..NumThreads
NoThread == 0
NoTile == 0

\* TileDesc (x, y, z) of two tiles of one column: both files live in the
\* directory <tilesRoot>/<z>/<x>. Keys are only ever compared for equality.
Keys == {<<0, 0, 1>>, <<0, 1, 1>>}

\* The key whose network fetch is allowed to hang forever in SpecStuck.
StuckKey == <<0, 0, 1>>

\* ------------------------------------------------------------------------
\* State
\* ------------------------------------------------------------------------
VARIABLES
    pc,          \* position of each worker thread inside GetTile
    key,         \* TileDesc d of the thread's current GetTile call
    ret,         \* local TilePtr ret of GetTile (index into heap, NoTile = null)
    found,       \* local bool found of GetTile
    result,      \* value returned by the thread's last GetTile call
    calls,       \* number of GetTile calls the thread has made
    m_lock,      \* TileManager::m_lock, the thread holding it or NoThread
    m_tiles,     \* TileManager::m_tiles, key -> tile (NoTile = no entry)
    heap,        \* the Tile objects allocated so far
    disk,        \* content of the on-disk tile file of each key
    dirExists,   \* whether <tilesRoot>/<z>/<x> exists
    fetches,     \* number of DownloadTile invocations per key (history)
    sw,          \* the MapSwitcher
    sw2,         \* a second MapSwitcher, configured and fed identically
    policy,      \* the override callback installed in both switchers
    mapIndex,    \* FrameState::MapIndex written by the last ComputeState of sw
    mapIndex2,   \* the same for sw2
    nframes,     \* number of ComputeState calls made
    inOrder,     \* history: the seconds fed so far were 0,..,s without a gap
    asked,       \* history: the last ComputeState consulted the callback
    asserts,     \* whether the build keeps assert() (NDEBUG not defined)
    aborted,     \* the process was ended by a failed assert or a null dereference
    gpxFiles,    \* the GPX files named by inputGPXPaths, as lists of <trkseg>
    seg,         \* m_items of the GPXSegment a method is called on
    idleSegments,    \* the vector SplitIdleSegments appends to
    interp,      \* what seg.Interpolate returned
    interp2,     \* what a second seg.Interpolate with the same frequency returned
    m_trackSegments, \* GPX::m_trackSegments of the GPX object of LoadSegments
    loadFromFile,    \* what gpx->LoadFromFile returned inside LoadSegments
    segments,    \* the GPXSegments vector of LoadSegments and GetSegmentRange
    loadSegments,    \* what LoadSegments returned
    nextItem,    \* the caller's cursor passed to GetClosestItem
    item,        \* the caller's TrackItem passed to GetClosestItem
    closest,     \* what the last GetClosestItem returned
    range,       \* the caller's SegmentRange passed to GetSegmentRange
    rangeFound,  \* what GetSegmentRange returned
    videoInfo,   \* the VideoInfo vector given to ComputeMapSegmentsForGpxVideos
    gpxInfo,     \* the GPXInfo vector given to it
    segmentInfo, \* the output vector it appends to
    matched,     \* what it returned
    seg_initialDistance, \* m_initialDistance of the GPXSegment seg
    wholeTrack,  \* what MergeSegments returned
    segOp,       \* history: the last operation called on seg
    lastCb,      \* history: what m_cb answered when it was last evaluated
    released,    \* history: that answer was the first not to override again
    encoding,    \* per output file: the state of its EncodeOneSegment task
    s_filesWithErrors, \* the static vector of main.cpp
    mainReturned, \* what main returned after tasks.wait
    videos,      \* the VideoInfo vector of MatchExternalGPXWithEmbeddedVideoTimestamps
    vi,          \* the position of its for loop in that vector
    frameCount,  \* its local frameCount
    startFrame,  \* its local startFrame
    chunk_j,     \* its local j
    tasks,       \* the EncodingParams pushed to the task set, in order
    chunkPc      \* where the function is: "for", "while" or "returned"

tileVars == <<pc, key, ret, found, result, calls, m_lock, m_tiles, heap, disk,
              dirExists, fetches>>
swVars == <<sw, sw2, policy, mapIndex, mapIndex2, nframes, inOrder, asked>>
trackVars == <<gpxFiles, seg, idleSegments, interp, interp2, m_trackSegments,
               loadFromFile, segments, loadSegments, nextItem, item, closest,
               range, rangeFound>>
matchVars == <<videoInfo, gpxInfo, segmentInfo, matched>>
segVars == <<seg_initialDistance, wholeTrack, segOp>>
cbVars == <<lastCb, released>>
encVars == <<encoding, s_filesWithErrors, mainReturned>>
chunkVars == <<videos, vi, frameCount, startFrame, chunk_j, tasks, chunkPc>>
extraVars == <<cbVars, encVars, chunkVars>>
restVars == <<segVars, extraVars>>
vars == <<pc, key, ret, found, result, calls, m_lock, m_tiles, heap, disk,
          dirExists, fetches, sw, sw2, policy, mapIndex, mapIndex2, nframes,
          inOrder, asked, asserts, aborted, gpxFiles, seg, idleSegments, interp,
          interp2,
          m_trackSegments, loadFromFile, segments, loadSegments, nextItem, item,
          closest, range, rangeFound, videoInfo, gpxInfo, segmentInfo, matched,
          seg_initialDistance, wholeTrack, segOp, lastCb, released,
          encoding, s_filesWithErrors, mainReturned,
          videos, vi, frameCount, startFrame, chunk_j, tasks, chunkPc>>

\* ------------------------------------------------------------------------
\* Tile  (include/gpsmap/tilemanager.h, src/tilemanager.cpp)
\* ------------------------------------------------------------------------
LOADING == "LOADING"
LOADED == "LOADED"
FAILED == "FAILED"

\* Tile::Tile(const TileDesc &desc): a placeholder in state LOADING.
NewTile(d) ==
    [desc |-> d, state |-> LOADING, image |-> "none", waiters |-> {}]

\* OIIO::ImageBuf(m_filePath) followed by ImageBufAlgo::channels: a readable
\* image file gives a 4-channel image, anything else an ImageBuf in error state.
Decode(content) == IF content = "good" THEN "ok" ELSE "error"

\* The predicate of m_cv.wait and the test before it.
WaitPredicate_Always(s) == TRUE
WaitPredicate(s) == s # LOADING

\* ------------------------------------------------------------------------
\* TileManager::GetTile, lookup under the cache lock
\* ------------------------------------------------------------------------
\* m_tiles.find(d) != m_tiles.end()
Found_Never(k) == FALSE
Found_RetryFailed(k) == m_tiles[k] # NoTile /\ heap[m_tiles[k]].state # FAILED
Found(k) == m_tiles[k] # NoTile

\* End of the scope of std::unique_lock<std::mutex> lock(m_lock).
UnlockCache_Missing(holder, t) == holder
UnlockCache(holder, t) == IF holder = t THEN NoThread ELSE holder

\* What GetTile returns on the waiter path: WaitUntilDownloaded's result is
\* dropped and ret is returned.
WaiterResult(tile, loaded) == tile

\* DownloadTile's return value after tilep->Load(...).
LoadedReturn_False == FALSE
LoadedReturn == TRUE

RECURSIVE TotalCalls(_, _)
\* Number of GetTile calls made by the threads 1..n.
TotalCalls(c, n) == IF n = 0 THEN 0 ELSE c[n] + TotalCalls(c, n - 1)

GetTileCall(t, k) ==
    /\ pc[t] = "idle"
    /\ TotalCalls(calls, NumThreads) < MaxCalls
    /\ calls' = [calls EXCEPT ![t] = @ + 1]
    /\ key' = [key EXCEPT ![t] = k]
    /\ ret' = [ret EXCEPT ![t] = NoTile]
    /\ found' = [found EXCEPT ![t] = FALSE]
    /\ pc' = [pc EXCEPT ![t] = "lock"]
    /\ UNCHANGED <<result, m_lock, m_tiles, heap, disk, dirExists, fetches>>
    /\ UNCHANGED <<swVars, asserts, aborted, trackVars, matchVars, restVars>>

GetTileLock(t) ==
    /\ pc[t] = "lock"
    /\ m_lock = NoThread
    /\ m_lock' = t
    /\ pc' = [pc EXCEPT ![t] = "find"]
    /\ UNCHANGED <<key, ret, found, result, calls, m_tiles, heap, disk,
                   dirExists, fetches>>
    /\ UNCHANGED <<swVars, asserts, aborted, trackVars, matchVars, restVars>>

GetTileFind(t) ==
    /\ pc[t] = "find"
    /\ IF Found(key[t])
         THEN /\ ret' = [ret EXCEPT ![t] = m_tiles[key[t]]]
              /\ found' = [found EXCEPT ![t] = TRUE]
              /\ pc' = [pc EXCEPT ![t] = "wait"]
              /\ UNCHANGED <<m_tiles, heap>>
         ELSE /\ heap' = Append(heap, NewTile(key[t]))
              /\ ret' = [ret EXCEPT ![t] = Len(heap) + 1]
              /\ m_tiles' = [m_tiles EXCEPT ![key[t]] = Len(heap) + 1]
              /\ pc' = [pc EXCEPT ![t] = "download"]
              /\ UNCHANGED found
    /\ m_lock' = UnlockCache(m_lock, t)
    /\ UNCHANGED <<key, result, calls, disk, dirExists, fetches>>
    /\ UNCHANGED <<swVars, asserts, aborted, trackVars, matchVars, restVars>>

\* ------------------------------------------------------------------------
\* TileManager::DownloadTile (owner path)
\* ------------------------------------------------------------------------
DownloadTileIsDir(t) ==
    /\ pc[t] = "download"
    /\ fetches' = [fetches EXCEPT ![key[t]] = @ + 1]
    /\ pc' = [pc EXCEPT ![t] = IF dirExists THEN "exists" ELSE "mkdir"]
    /\ UNCHANGED <<key, ret, found, result, calls, m_lock, m_tiles, heap, disk,
                   dirExists>>
    /\ UNCHANGED <<swVars, asserts, aborted, trackVars, matchVars, restVars>>

\* create_directories returns false when it created nothing, which is what a
\* thread gets that lost the race for the directory to another owner.
DownloadTileMkdir(t) ==
    /\ pc[t] = "mkdir"
    /\ IF dirExists
         THEN pc' = [pc EXCEPT ![t] = "fail"]
         ELSE pc' = [pc EXCEPT ![t] = "exists"]
    /\ dirExists' = TRUE
    /\ UNCHANGED <<key, ret, found, result, calls, m_lock, m_tiles, heap, disk,
                   fetches>>
    /\ UNCHANGED <<swVars, asserts, aborted, trackVars, matchVars, restVars>>

DownloadTileExists(t) ==
    /\ pc[t] = "exists"
    /\ IF disk[key[t]] # "absent"
         THEN IF disk[key[t]] # "empty"
                THEN /\ pc' = [pc EXCEPT ![t] = "load"]
                     /\ UNCHANGED disk
                ELSE /\ disk' = [disk EXCEPT ![key[t]] = "absent"]
                     /\ pc' = [pc EXCEPT ![t] = "fetch"]
         ELSE /\ pc' = [pc EXCEPT ![t] = "fetch"]
              /\ UNCHANGED disk
    /\ UNCHANGED <<key, ret, found, result, calls, m_lock, m_tiles, heap,
                   dirExists, fetches>>
    /\ UNCHANGED <<swVars, asserts, aborted, trackVars, matchVars, restVars>>

\* DownloadFile: the transfer ends with some bytes written to the file, or
\* with an error, after which DownloadTile removes the file.
DownloadFile(t) ==
    /\ pc[t] = "fetch"
    /\ \E outcome \in {"good", "corrupt", "empty", "error"} :
         IF outcome = "error"
           THEN /\ disk' = [disk EXCEPT ![key[t]] = "absent"]
                /\ pc' = [pc EXCEPT ![t] = "fail"]
           ELSE /\ disk' = [disk EXCEPT ![key[t]] = outcome]
                /\ pc' = [pc EXCEPT ![t] = "load"]
    /\ UNCHANGED <<key, ret, found, result, calls, m_lock, m_tiles, heap,
                   dirExists, fetches>>
    /\ UNCHANGED <<swVars, asserts, aborted, trackVars, matchVars, restVars>>

\* ------------------------------------------------------------------------
\* Tile::Load
\* ------------------------------------------------------------------------
\* The block under std::lock_guard lk(m_lock). Every access to m_state is made
\* under the tile's mutex and nothing blocks inside, so the block is one step.
\* On the early return DownloadTile returns and GetTile returns ret.
TileLoad(t) ==
    /\ pc[t] = "load"
    /\ IF heap[ret[t]].state # LOADING
         THEN /\ pc' = [pc EXCEPT ![t] = IF LoadedReturn THEN "idle" ELSE "fail"]
              /\ result' = [result EXCEPT ![t] =
                               IF LoadedReturn THEN ret[t] ELSE @]
              /\ UNCHANGED heap
         ELSE /\ heap' = [heap EXCEPT ![ret[t]].image = Decode(disk[key[t]]),
                                      ![ret[t]].state = LOADED]
              /\ pc' = [pc EXCEPT ![t] = "load_notify"]
              /\ UNCHANGED result
    /\ UNCHANGED <<key, ret, found, calls, m_lock, m_tiles, disk, dirExists,
                   fetches>>
    /\ UNCHANGED <<swVars, asserts, aborted, trackVars, matchVars, restVars>>

\* m_cv.notify_all(): every thread blocked in m_cv.wait becomes runnable.
Notified_Nobody(p, tile) == p
Notified(p, tile) ==
    [u \in Threads |-> IF u \in tile.waiters THEN "woken" ELSE p[u]]

\* notify_all; then DownloadTile returns true and GetTile returns ret, where
\* a false result would take GetTile to ret->Fail().
TileLoadNotify(t) ==
    /\ pc[t] = "load_notify"
    /\ heap' = [heap EXCEPT ![ret[t]].waiters = {}]
    /\ pc' = [Notified(pc, heap[ret[t]]) EXCEPT
                 ![t] = IF LoadedReturn THEN "idle" ELSE "fail"]
    /\ result' = [result EXCEPT ![t] = IF LoadedReturn THEN ret[t] ELSE @]
    /\ UNCHANGED <<key, ret, found, calls, m_lock, m_tiles, disk, dirExists,
                   fetches>>
    /\ UNCHANGED <<swVars, asserts, aborted, trackVars, matchVars, restVars>>

\* ------------------------------------------------------------------------
\* Tile::Fail, called by GetTile when DownloadTile returned false
\* ------------------------------------------------------------------------
TileFail(t) ==
    /\ pc[t] = "fail"
    /\ heap' = [heap EXCEPT ![ret[t]].state = FAILED]
    /\ pc' = [pc EXCEPT ![t] = "fail_notify"]
    /\ UNCHANGED <<key, ret, found, result, calls, m_lock, m_tiles, disk,
                   dirExists, fetches>>
    /\ UNCHANGED <<swVars, asserts, aborted, trackVars, matchVars, restVars>>

\* notify_all, then GetTile returns nullptr.
TileFailNotify(t) ==
    /\ pc[t] = "fail_notify"
    /\ heap' = [heap EXCEPT ![ret[t]].waiters = {}]
    /\ pc' = [Notified(pc, heap[ret[t]]) EXCEPT ![t] = "idle"]
    /\ result' = [result EXCEPT ![t] = NoTile]
    /\ UNCHANGED <<key, ret, found, calls, m_lock, m_tiles, disk, dirExists,
                   fetches>>
    /\ UNCHANGED <<swVars, asserts, aborted, trackVars, matchVars, restVars>>

\* ------------------------------------------------------------------------
\* Tile::WaitUntilDownloaded (waiter path)
\* ------------------------------------------------------------------------
\* The state test under the tile's mutex, on entry and after each wake-up:
\* return, or atomically release the mutex and block on m_cv.
WaitUntilDownloaded(t) ==
    /\ pc[t] \in {"wait", "woken"}
    /\ IF WaitPredicate(heap[ret[t]].state)
         THEN /\ result' = [result EXCEPT ![t] =
                    WaiterResult(ret[t], heap[ret[t]].state = LOADED)]
              /\ pc' = [pc EXCEPT ![t] = "idle"]
              /\ UNCHANGED heap
         ELSE /\ heap' = [heap EXCEPT ![ret[t]].waiters = @ \cup {t}]
              /\ pc' = [pc EXCEPT ![t] = "sleeping"]
              /\ UNCHANGED result
    /\ UNCHANGED <<key, ret, found, calls, m_lock, m_tiles, disk, dirExists,
                   fetches>>
    /\ UNCHANGED <<swVars, asserts, aborted, trackVars, matchVars, restVars>>

\* A condition variable may wake a waiter without a notification.
SpuriousWake(t) ==
    /\ pc[t] = "sleeping"
    /\ heap' = [heap EXCEPT ![ret[t]].waiters = @ \ {t}]
    /\ pc' = [pc EXCEPT ![t] = "woken"]
    /\ UNCHANGED <<key, ret, found, result, calls, m_lock, m_tiles, disk,
                   dirExists, fetches>>
    /\ UNCHANGED <<swVars, asserts, aborted, trackVars, matchVars, restVars>>

\* ------------------------------------------------------------------------
\* MapSwitcher  (include/gpsmap/map.h, src/map.cpp)
\* ------------------------------------------------------------------------
MaxMaps == 2
MaxDuration == 2
MaxFrame == 7
MaxSteps == 8
HeadSeconds == 2
TailStart == 4

\* index = -1 in the callback of CreateMapSwitcher: the largest unsigned value.
\* It is only ever compared with m_maps.size(); the largest integer TLC
\* represents stands for 4294967295.
MinusOne == 2147483647

\* Frame rates as exact rationals <<numerator, denominator>>.
FpsSet == {<<1, 1>>, <<2, 1>>}

\* int second = frameIndex / fps: the quotient truncated to an int.
Second(frameIndex, fps) == (frameIndex * fps[2]) \div fps[1]

\* MapSwitcher::MapSwitcher(cb): the fields after construction.
CtorStates_Uninit ==
    {[m_maps |-> <<>>, m_currentMapIndex |-> 0, m_remainingDuration |-> 0,
      m_prevSecond |-> p] : p \in -1..1}
CtorStates ==
    {[m_maps |-> <<>>, m_currentMapIndex |-> 0, m_remainingDuration |-> 0,
      m_prevSecond |-> -1]}

\* The override callbacks m_cb: never override, always force index -1 (short
\* segments), force index -1 at the head and the tail of the segment, or
\* always force entry 0.
Policies == {"never", "always", "ends", "first"}

Callback(p, second) ==
    CASE p = "never" -> [override |-> FALSE, index |-> 0]
      [] p = "always" -> [override |-> TRUE, index |-> MinusOne]
      [] p = "ends" -> IF second > TailStart \/ second < HeadSeconds
                         THEN [override |-> TRUE, index |-> MinusOne]
                         ELSE [override |-> FALSE, index |-> 0]
      [] p = "first" -> [override |-> TRUE, index |-> 0]

\* void AddMapGenerator(map, duration)
AddMapGeneratorTo(s, duration) ==
    LET maps == Append(s.m_maps, duration)
    IN  [s EXCEPT !.m_maps = maps,
                  !.m_currentMapIndex = 0,
                  !.m_remainingDuration = maps[1]]

\* if (m_prevSecond >= 0) guarding --m_remainingDuration
DecrementNeeded_Always(prevSecond) == TRUE
DecrementNeeded(prevSecond) == prevSecond >= 0

\* if (second != m_prevSecond): the transition rule runs on a new second only.
NewSecond_Always(second, prevSecond) == TRUE
NewSecond(second, prevSecond) == second # prevSecond

\* Whether this call evaluates m_cb.
Consults(s, frameIndex, fps) ==
    NewSecond(Second(frameIndex, fps), s.m_prevSecond) /\ Len(s.m_maps) > 1

\* if (overrideIndex < m_maps.size()) m_currentMapIndex = overrideIndex;
\* else m_currentMapIndex = m_maps.size() - 1;
Selected_Unchecked(overrideIndex, n) == overrideIndex
Selected(overrideIndex, n) ==
    IF overrideIndex < n THEN overrideIndex ELSE n - 1

\* m_remainingDuration after m_cb has overridden the index: the override
\* branch assigns m_currentMapIndex only.
Remaining_Restarted(rem, maps, index) == maps[index + 1]
Remaining(rem, maps, index) == rem

\* MapSwitcher::ComputeState with m_cb answering cb: the switcher's fields
\* after the call; state.MapIndex receives m_currentMapIndex.
\* m_currentMapIndex + 1 cannot wrap, the index being smaller than
\* m_maps.size().
ComputeStateWith(s, cb, frameIndex, fps) ==
    LET second == Second(frameIndex, fps)
        n == Len(s.m_maps)
        rem1 == IF DecrementNeeded(s.m_prevSecond)
                  THEN s.m_remainingDuration - 1
                  ELSE s.m_remainingDuration
        cur1 == IF rem1 = 0
                  THEN (s.m_currentMapIndex + 1) % n
                  ELSE s.m_currentMapIndex
        rem2 == IF rem1 = 0 THEN s.m_maps[cur1 + 1] ELSE rem1
        over == n > 1 /\ cb.override
        cur2 == IF over THEN Selected(cb.index, n) ELSE cur1
        rem3 == IF over THEN Remaining(rem2, s.m_maps, cur2) ELSE rem2
    IN  IF NewSecond(second, s.m_prevSecond)
          THEN [s EXCEPT !.m_currentMapIndex = cur2,
                         !.m_remainingDuration = rem3,
                         !.m_prevSecond = second]
          ELSE s

\* MapSwitcher::ComputeState with one of the callbacks of Policies.
ComputeState(s, p, frameIndex, fps) ==
    ComputeStateWith(s, Callback(p, Second(frameIndex, fps)), frameIndex, fps)

SwitcherIdle ==
    /\ sw = [m_maps |-> <<>>, m_currentMapIndex |-> 0,
             m_remainingDuration |-> 0, m_prevSecond |-> -1]
    /\ sw2 = sw
    /\ policy = "never"
    /\ mapIndex = 0
    /\ mapIndex2 = 0
    /\ nframes = 0
    /\ inOrder = TRUE
    /\ asked = FALSE

\* Two switchers are created with the same callback (CreateMapSwitcher).
InitSwitcher ==
    /\ sw \in CtorStates
    /\ sw2 \in CtorStates
    /\ policy \in Policies
    /\ mapIndex = 0
    /\ mapIndex2 = 0
    /\ nframes = 0
    /\ inOrder = TRUE
    /\ asked = FALSE

\* ms->AddMapGenerator(m.first, m.second) on both switchers, before any frame.
AddMapGenerator(duration) ==
    /\ nframes = 0
    /\ Len(sw.m_maps) < MaxMaps
    /\ sw' = AddMapGeneratorTo(sw, duration)
    /\ sw2' = AddMapGeneratorTo(sw2, duration)
    /\ UNCHANGED <<policy, mapIndex, mapIndex2, nframes, inOrder, asked>>
    /\ UNCHANGED <<tileVars, asserts, aborted, trackVars,
                 matchVars, restVars>>

\* ms->ComputeState(item, i, fps) on both switchers with the same arguments.
\* CreateMapSwitcher adds the entries of GetZoomLevels before the first frame,
\* so m_maps is not empty here.
ComputeFrame(frameIndex, fps) ==
    /\ Len(sw.m_maps) >= 1
    /\ nframes < MaxSteps
    /\ sw' = ComputeState(sw, policy, frameIndex, fps)
    /\ sw2' = ComputeState(sw2, policy, frameIndex, fps)
    /\ mapIndex' = sw'.m_currentMapIndex
    /\ mapIndex2' = sw2'.m_currentMapIndex
    /\ nframes' = nframes + 1
    /\ inOrder' = (inOrder /\ Second(frameIndex, fps) \in
                                {sw.m_prevSecond, sw.m_prevSecond + 1}
                           /\ Second(frameIndex, fps) >= 0)
    /\ asked' = Consults(sw, frameIndex, fps)
    /\ UNCHANGED policy
    /\ UNCHANGED <<tileVars, asserts, aborted, trackVars,
                 matchVars, restVars>>

\* ------------------------------------------------------------------------
\* double arithmetic, kept exact: a double is a fraction <<n, d>> in lowest
\* terms with d > 0, a time_t or an int is an integer.
\* ------------------------------------------------------------------------
RECURSIVE Gcd(_, _)
Gcd(a, b) == IF b = 0 THEN a ELSE Gcd(b, a % b)

Abs(x) == IF x < 0 THEN 0 - x ELSE x

Rat(n, d) ==
    LET g == Gcd(Abs(n), Abs(d))
        sgn == IF d < 0 THEN 0 - 1 ELSE 1
    IN  <<(sgn * n) \div g, (sgn * d) \div g>>

\* An integer converted to double.
Dbl(k) == <<k, 1>>

RAdd(a, b) == Rat(a[1] * b[2] + b[1] * a[2], a[2] * b[2])
RSub(a, b) == Rat(a[1] * b[2] - b[1] * a[2], a[2] * b[2])
RMul(a, b) == Rat(a[1] * b[1], a[2] * b[2])
RDiv(a, b) == Rat(a[1] * b[2], a[2] * b[1])
RLt(a, b) == a[1] * b[2] < b[1] * a[2]
RLe(a, b) == a[1] * b[2] <= b[1] * a[2]
RAbs(a) == <<Abs(a[1]), a[2]>>

\* A double converted to time_t or int: the fraction is discarded.
TimeT(a) == IF a[1] >= 0 THEN a[1] \div a[2] ELSE 0 - ((0 - a[1]) \div a[2])

\* "true" / "false" for what a call returned, "none" while it was not made.
NotCalled == "none"
Bool(b) == IF b THEN "true" ELSE "false"

\* ------------------------------------------------------------------------
\* TrackItem, GPXSegment  (include/gpsmap/gpx.h, src/gpx.cpp)
\* ------------------------------------------------------------------------
\* Points per segment, and the largest time_t asked for.
MaxPoints == 3
MaxTime == 3

\* A default-constructed TrackItem.
TrackItem ==
    [Valid |-> TRUE, OriginalTimestamp |-> "", Timestamp |-> <<0, 1>>,
     Latitude |-> <<0, 1>>, Longitude |-> <<0, 1>>, Speed |-> <<0, 1>>,
     Elevation |-> <<0, 1>>, DistanceDelta |-> <<0, 1>>,
     TotalDistance |-> <<0, 1>>, Bearing |-> <<0, 1>>,
     IsTrackStart |-> FALSE, IsSegmentStart |-> FALSE, MapIndex |-> 0]

\* GPXSegment::AddItem: push_back, after an assert that the timestamps do not
\* decrease.
AddItemAllowed(items, it) ==
    Len(items) = 0 \/ RLe(items[Len(items)].Timestamp, it.Timestamp)
AddItem(items, it) == Append(items, it)

\* for (auto i = nextItem; i + 1 < m_items.size(); ++i): the first i with
\* m_items[i].Timestamp <= timestamp < m_items[i + 1].Timestamp, NoIndex if
\* the loop ends. Indexes are the 0-based ones of the code.
NoIndex == 0 - 1

\* i1.Timestamp <= timestamp && timestamp < i2.Timestamp
Between_Closed(t1, timestamp, t2) == RLe(t1, timestamp) /\ RLe(timestamp, t2)
Between(t1, timestamp, t2) == RLe(t1, timestamp) /\ RLt(timestamp, t2)

RECURSIVE ClosestFrom(_, _, _)
ClosestFrom(items, timestamp, i) ==
    IF i + 1 >= Len(items)
      THEN NoIndex
      ELSE IF Between(items[i + 1].Timestamp, Dbl(timestamp),
                      items[i + 2].Timestamp)
             THEN i
             ELSE ClosestFrom(items, timestamp, i + 1)

\* What a not-found return leaves in the caller's cursor.
NotFoundCursor_Reset(cursor) == 0
NotFoundCursor(cursor) == cursor

\* bool GPXSegment::GetClosestItem(time_t timestamp, size_t &nextItem,
\* TrackItem &item): the return value and the two reference parameters after
\* the call. nextItem < 0 is never true of a size_t.
GetClosestItemOf(items, timestamp, cursor, it) ==
    LET notFound == [found |-> FALSE, nextItem |-> NotFoundCursor(cursor),
                     item |-> it]
        i == ClosestFrom(items, timestamp, cursor)
    IN  IF cursor >= Len(items)
          THEN notFound
          ELSE IF RLt(Dbl(timestamp), items[cursor + 1].Timestamp)
                 THEN notFound
                 ELSE IF i = NoIndex
                        THEN notFound
                        ELSE [found |-> TRUE, nextItem |-> i,
                              item |-> items[i + 1]]

\* ------------------------------------------------------------------------
\* GetSegmentRange  (src/utils.cpp)
\* ------------------------------------------------------------------------
\* range.segment is the position of the segment in the list, NoSegment for a
\* null GPXSegmentPtr.
NoSegment == 0

RECURSIVE GetSegmentRangeFrom(_, _, _, _, _)
\* The for loop from the k-th segment on. start + duration is a double that
\* the call converts to the time_t parameter of GetClosestItem.
GetSegmentRangeFrom(segs, k, start, duration, rng) ==
    IF k > Len(segs)
      THEN [found |-> FALSE, range |-> rng]
      ELSE LET first == GetClosestItemOf(segs[k], start, 0, TrackItem)
               rng1 == [rng EXCEPT !.segment = k,
                                   !.startIndex = first.nextItem]
               second == GetClosestItemOf(segs[k],
                             TimeT(RAdd(Dbl(start), duration)),
                             first.nextItem, first.item)
           IN  IF ~first.found
                 THEN GetSegmentRangeFrom(segs, k + 1, start, duration, rng)
                 ELSE IF ~second.found
                        THEN GetSegmentRangeFrom(segs, k + 1, start, duration,
                                                 rng1)
                        ELSE [found |-> TRUE,
                              range |-> [rng1 EXCEPT
                                           !.endIndex = second.nextItem]]

\* ------------------------------------------------------------------------
\* Segments looked up by time
\* ------------------------------------------------------------------------
\* Timestamps of consecutive points differ by a step: whole seconds in a raw
\* track, fractions of a second after Interpolate, nothing where a receiver
\* logs several points per second.
StartTimes == {0, 1}
TimeSteps == {<<0, 1>>, <<1, 2>>, <<1, 1>>}

TimedItem(t) == [TrackItem EXCEPT !.Timestamp = t]

RECURSIVE Timelines(_)
\* The m_items of a segment after n calls of AddItem.
Timelines(n) ==
    IF n = 1
      THEN {AddItem(<<>>, TimedItem(Dbl(t))) : t \in StartTimes}
      ELSE {AddItem(s, TimedItem(RAdd(s[Len(s)].Timestamp, d))) :
               s \in Timelines(n - 1), d \in TimeSteps}

TimedSegments == {<<>>} \cup UNION {Timelines(n) : n \in 1..MaxPoints}

\* The duration argument of GetSegmentRange, a double.
Durations == {<<0, 1>>, <<1, 2>>, <<1, 1>>, <<3, 2>>}

\* A SegmentRange that no call has filled in.
NoRange == [segment |-> NoSegment, startIndex |-> 0, endIndex |-> 0]

\* seg->GetClosestItem(timestamp, nextItem, item)
GetClosestItem(timestamp) ==
    /\ LET r == GetClosestItemOf(seg, timestamp, nextItem, item)
       IN  /\ nextItem' = r.nextItem
           /\ item' = r.item
           /\ closest' = Bool(r.found)
    /\ UNCHANGED <<gpxFiles, seg, idleSegments, interp, interp2,
                   m_trackSegments, loadFromFile, segments, loadSegments,
                   range, rangeFound>>
    /\ UNCHANGED <<tileVars, swVars, asserts, aborted, matchVars, restVars>>

\* GetSegmentRange(segments, start, duration, range)
GetSegmentRange(start, duration) ==
    /\ LET r == GetSegmentRangeFrom(segments, 1, start, duration, range)
       IN  /\ range' = r.range
           /\ rangeFound' = Bool(r.found)
    /\ UNCHANGED <<gpxFiles, seg, idleSegments, interp, interp2,
                   m_trackSegments, loadFromFile, segments, loadSegments,
                   nextItem, item, closest>>
    /\ UNCHANGED <<tileVars, swVars, asserts, aborted, matchVars, restVars>>

\* ------------------------------------------------------------------------
\* GPX files  (GPX::LoadFromFile, src/gpx.cpp)
\* ------------------------------------------------------------------------
\* A <trkpt> carries lat, lon, ele, time and speed. Positions are the nodes of
\* a grid much wider than the epsilon of SplitIdleSegments; the time text has
\* a fraction of a second where the receiver logs faster than 1 Hz.
FilePositions == {<<0, 0>>, <<0, 1>>, <<1, 1>>}
FileTimeSteps == {<<1, 2>>, <<2, 1>>}

TrkPt(pos, time) ==
    [lat |-> pos[1], lon |-> pos[2], ele |-> 10 * pos[1] + pos[2],
     time |-> time, speed |-> 0]

RECURSIVE TrkSegsOf(_)
\* The <trkseg> elements with n points.
TrkSegsOf(n) ==
    IF n = 0
      THEN {<<>>}
      ELSE IF n = 1
             THEN {<<TrkPt(p, <<0, 1>>)>> : p \in FilePositions}
             ELSE {Append(s, TrkPt(p, RAdd(s[Len(s)].time, d))) :
                      s \in TrkSegsOf(n - 1), p \in FilePositions,
                      d \in FileTimeSteps}

TrkSegs == UNION {TrkSegsOf(n) : n \in 0..MaxPoints}

\* parse_time: sscanf reads the seconds as a float, tm_sec = (int) s drops the
\* fraction. Times are counted from the first instant of the model.
parse_time(time) == TimeT(time)

\* The TrackItem that LoadFromFile builds from a <trkpt>.
ParsedItem(trkpt, first, firstSegment) ==
    [TrackItem EXCEPT !.Speed = Dbl(trkpt.speed),
                      !.Latitude = Dbl(trkpt.lat),
                      !.Longitude = Dbl(trkpt.lon),
                      !.Elevation = Dbl(trkpt.ele),
                      !.OriginalTimestamp = ToString(trkpt.time),
                      !.Timestamp = Dbl(parse_time(trkpt.time)),
                      !.DistanceDelta = <<0, 1>>,
                      !.TotalDistance = <<0, 1>>,
                      !.Bearing = <<0, 1>>,
                      !.IsTrackStart = first,
                      !.IsSegmentStart = firstSegment]

\* The inner BOOST_FOREACH: one AddItem per <trkpt>; first is the flag of the
\* whole file on entry.
ParsedItems(trkseg, first) ==
    [i \in 1..Len(trkseg) |-> ParsedItem(trkseg[i], first /\ i = 1, i = 1)]

\* Whether an assert of AddItem fails while the items are added in order.
AddItemFails(items) ==
    \E i \in 1..(Len(items) - 1) :
        ~AddItemAllowed(SubSeq(items, 1, i), items[i + 1])

\* ------------------------------------------------------------------------
\* GPXSegment::UpdateBearing
\* ------------------------------------------------------------------------
Sign(a) == IF a[1] > 0 THEN 1 ELSE IF a[1] < 0 THEN 0 - 1 ELSE 0

\* bearing(): the forward azimuth atan2(x, y) in degrees. Between grid nodes
\* close to the equator it is the compass direction of the step, and 0 for a
\* step to the same node.
bearing(lat1, lon1, lat2, lon2) ==
    LET dlat == Sign(RSub(lat2, lat1))
        dlon == Sign(RSub(lon2, lon1))
    IN  CASE dlon = 0 /\ dlat >= 0 -> Dbl(0)
          [] dlon = 0 /\ dlat < 0 -> Dbl(180)
          [] dlon > 0 /\ dlat > 0 -> Dbl(45)
          [] dlon > 0 /\ dlat = 0 -> Dbl(90)
          [] dlon > 0 /\ dlat < 0 -> Dbl(135)
          [] dlon < 0 /\ dlat > 0 -> Dbl(0 - 45)
          [] dlon < 0 /\ dlat = 0 -> Dbl(0 - 90)
          [] dlon < 0 /\ dlat < 0 -> Dbl(0 - 135)

RECURSIVE UpdateBearingFrom(_, _)
\* The for loop from the 0-based index i on.
UpdateBearingFrom(items, i) ==
    IF i + 1 >= Len(items)
      THEN items
      ELSE LET b == bearing(items[i + 1].Latitude, items[i + 1].Longitude,
                            items[i + 2].Latitude, items[i + 2].Longitude)
           IN  IF b = Dbl(0)
                 THEN IF i > 1
                        THEN UpdateBearingFrom(
                                 [items EXCEPT ![i + 1].Bearing =
                                                  items[i].Bearing], i + 1)
                        ELSE UpdateBearingFrom(items, i + 1)
                 ELSE UpdateBearingFrom(
                          [items EXCEPT ![i + 1].Bearing = b], i + 1)

UpdateBearing(items) ==
    IF Len(items) < 2 THEN items ELSE UpdateBearingFrom(items, 0)

\* The segments LoadFromFile has in hand after UpdateBearing, and before
\* Interpolate and UpdateDistances.
ParsedSegments == {UpdateBearing(ParsedItems(t, TRUE)) : t \in TrkSegs}

\* ------------------------------------------------------------------------
\* GPXSegment::SplitIdleSegments, GPXSegment::Extract
\* ------------------------------------------------------------------------
\* auto epsilon = 0.00000001
epsilon == <<1, 100000000>>

\* idle[i] for the 0-based index i.
IdleWhen(latDelta, lonDelta) ==
    RLt(latDelta, epsilon) /\ RLt(lonDelta, epsilon)

idle(items, i) ==
    IF i = 0
      THEN FALSE
      ELSE IdleWhen(RAbs(RSub(items[i + 1].Latitude, items[i].Latitude)),
                    RAbs(RSub(items[i + 1].Longitude, items[i].Longitude)))

\* Extract(start, end) returns nullptr for these arguments.
ExtractNull(items, start, end) ==
    start >= Len(items) \/ end > Len(items) \/ end < start

\* m_items of the segment Extract(start, end) returns otherwise.
Extract(items, start, end) == SubSeq(items, start + 1, end)

\* The end of the range extracted at index i.
ExtractEnd_Exclusive(i, last) == i
ExtractEnd(i, last) == IF last THEN i + 1 ELSE i

RECURSIVE SplitFrom(_, _, _, _, _)
\* The second for loop from index i on: the pairs <<start, end>> handed to
\* Extract, in order.
SplitFrom(items, i, start, curstate, cuts) ==
    IF i >= Len(items)
      THEN cuts
      ELSE LET isNewState == idle(items, i) # curstate
               last == (i = Len(items) - 1)
           IN  IF isNewState \/ last
                 THEN SplitFrom(items, i + 1, i, idle(items, i),
                                Append(cuts, <<start, ExtractEnd(i, last)>>))
                 ELSE SplitFrom(items, i + 1, start, curstate, cuts)

RECURSIVE TotalSize(_)
TotalSize(segs) ==
    IF Len(segs) = 0 THEN 0 ELSE Len(segs[1]) + TotalSize(Tail(segs))

\* void SplitIdleSegments(GPXSegments &segments) on m_items = items: the
\* vector after the call, and whether an assert failed or a null segment was
\* dereferenced on the way.
SplitIdleSegmentsOf(items, out, checked) ==
    LET cuts == SplitFrom(items, 0, 0, idle(items, 0), <<>>)
        null == \E c \in 1..Len(cuts) :
                    ExtractNull(items, cuts[c][1], cuts[c][2])
        new == [c \in 1..Len(cuts) |-> Extract(items, cuts[c][1], cuts[c][2])]
    IN  IF Len(items) < 1
          THEN [aborted |-> FALSE, segments |-> out]
          ELSE IF null
                 THEN [aborted |-> TRUE, segments |-> out]
                 ELSE [aborted |-> checked /\
                                   TotalSize(out \o new) # Len(items),
                       segments |-> out \o new]

\* seg->SplitIdleSegments(idleSegments)
SplitIdleSegments ==
    /\ ~aborted
    /\ Len(idleSegments) <= MaxPoints
    /\ LET r == SplitIdleSegmentsOf(seg, idleSegments, asserts)
       IN  /\ idleSegments' = r.segments
           /\ aborted' = r.aborted
    /\ UNCHANGED <<gpxFiles, seg, interp, interp2, m_trackSegments,
                   loadFromFile, segments, loadSegments, nextItem, item,
                   closest, range, rangeFound>>
    /\ UNCHANGED <<tileVars, swVars, asserts, matchVars, restVars>>

\* ------------------------------------------------------------------------
\* GPXSegment::Interpolate
\* ------------------------------------------------------------------------
\* The interpolation frequencies (points per second) that are asked for.
Frequencies == {1, 2}

\* fmod(x, 360) for x >= 0
FMod360(x) == RSub(x, Dbl(360 * TimeT(RDiv(x, Dbl(360)))))

angle_distance(a1, a2) ==
    LET d == RSub(a1, a2)
        phi == FMod360(RAbs(RSub(a2, a1)))
        sign == IF \/ RLe(Dbl(0), d) /\ RLe(d, Dbl(180))
                   \/ RLe(d, Dbl(0 - 180)) /\ RLe(Dbl(0 - 360), d)
                  THEN 1
                  ELSE 0 - 1
        phi180 == IF RLt(Dbl(180), phi) THEN RSub(Dbl(360), phi) ELSE phi
    IN  RMul(phi180, Dbl(sign))

\* TrackItem newItem: every member has a default initializer.
NewItems == {TrackItem}

\* for (auto t = 0; t < frames; ++t): the number of iterations.
LoopCount_Inclusive(frames) ==
    IF frames[1] < 0 THEN 0 ELSE frames[1] \div frames[2] + 1
LoopCount(frames) ==
    IF frames[1] <= 0 THEN 0 ELSE (frames[1] + frames[2] - 1) \div frames[2]

\* The item of iteration t between the points a and b.
InterpolatedItem(new, a, b, frequency, t, isFirst) ==
    LET td == RSub(b.Timestamp, a.Timestamp)
        frames == RMul(td, frequency)
        timeStampDelta == RDiv(td, frames)
        latitudeDelta == RDiv(RSub(b.Latitude, a.Latitude), frames)
        longitudeDelta == RDiv(RSub(b.Longitude, a.Longitude), frames)
        speedDelta == RDiv(RSub(b.Speed, a.Speed), frames)
        elevationDelta == RDiv(RSub(b.Elevation, a.Elevation), frames)
        bearingDelta == RDiv(angle_distance(b.Bearing, a.Bearing), frames)
    IN  [new EXCEPT
           !.Timestamp = RAdd(a.Timestamp, RMul(timeStampDelta, Dbl(t))),
           !.Latitude = RAdd(a.Latitude, RMul(latitudeDelta, Dbl(t))),
           !.Longitude = RAdd(a.Longitude, RMul(longitudeDelta, Dbl(t))),
           !.Speed = RAdd(a.Speed, RMul(speedDelta, Dbl(t))),
           !.Elevation = RAdd(a.Elevation, RMul(elevationDelta, Dbl(t))),
           !.Bearing = RAdd(a.Bearing, RMul(bearingDelta, Dbl(t))),
           !.IsTrackStart = (a.IsTrackStart /\ isFirst),
           !.IsSegmentStart = (a.IsSegmentStart /\ isFirst)]

RECURSIVE InterpolateFrom(_, _, _, _, _)
\* The while loop from the 0-based index i on, out holding the items added to
\* ret so far: "null" for return nullptr, "segment" for return ret.
InterpolateFrom(items, i, frequency, out, new) ==
    IF i + 1 >= Len(items)
      THEN [returned |-> "segment", items |-> out]
      ELSE LET a == items[i + 1]
               b == items[i + 2]
               td == RSub(b.Timestamp, a.Timestamp)
               count == LoopCount(RMul(td, frequency))
               added == [t \in 1..count |->
                            InterpolatedItem(new, a, b, frequency, t - 1,
                                             Len(out) = 0 /\ t = 1)]
           IN  IF td = Dbl(0)
                 THEN [returned |-> "null", items |-> <<>>]
                 ELSE InterpolateFrom(items, i + 1, frequency, out \o added,
                                      new)

\* GPXSegmentPtr Interpolate(double frequency) const on m_items = items;
\* "abort" when an assert of ret->AddItem fails in a build that checks them.
InterpolateOf(items, frequency, new, checked) ==
    LET r == InterpolateFrom(items, 0, frequency, <<>>, new)
    IN  IF Len(items) < 2
          THEN [returned |-> "null", items |-> <<>>]
          ELSE IF checked /\ r.returned = "segment" /\ AddItemFails(r.items)
                 THEN [returned |-> "abort", items |-> <<>>]
                 ELSE r

\* seg->Interpolate(frequency), twice.
Interpolate(frequency) ==
    /\ ~aborted
    /\ \E new1 \in NewItems, new2 \in NewItems :
         LET r1 == InterpolateOf(seg, Dbl(frequency), new1, asserts)
             r2 == InterpolateOf(seg, Dbl(frequency), new2, asserts)
         IN  /\ interp' = r1
             /\ interp2' = r2
             /\ aborted' = (r1.returned = "abort" \/ r2.returned = "abort")
    /\ UNCHANGED <<gpxFiles, seg, idleSegments, m_trackSegments,
                   loadFromFile, segments, loadSegments, nextItem, item,
                   closest, range, rangeFound>>
    /\ UNCHANGED <<tileVars, swVars, asserts, matchVars, restVars>>

\* ------------------------------------------------------------------------
\* GPXSegment::UpdateDistances
\* ------------------------------------------------------------------------
\* distance(): the haversine distance in metres. It is 0 between equal
\* coordinates, positive otherwise and symmetric; the model measures it along
\* the grid.
distance(lat1, lon1, lat2, lon2) ==
    RAdd(RAbs(RSub(lat2, lat1)), RAbs(RSub(lon2, lon1)))

StrictlyIncreasing(items) ==
    \A i \in 1..(Len(items) - 1) :
        RLt(items[i].Timestamp, items[i + 1].Timestamp)

\* std::sort(m_items.begin(), m_items.end()) with operator< on Timestamp: the
\* orders it can leave; the order of items with equal timestamps is
\* unspecified.
Sorted(items) ==
    IF StrictlyIncreasing(items)
      THEN {items}
      ELSE {[i \in 1..Len(items) |-> items[f[i]]] :
               f \in {g \in [1..Len(items) -> 1..Len(items)] :
                        /\ \A i, j \in 1..Len(items) : i # j => g[i] # g[j]
                        /\ \A i \in 1..(Len(items) - 1) :
                              RLe(items[g[i]].Timestamp,
                                  items[g[i + 1]].Timestamp)}}

RECURSIVE DistancesFrom(_, _, _)
\* The for loop from i on (0-based, starting at 1).
DistancesFrom(items, i, m_initialDistance) ==
    IF i >= Len(items)
      THEN items
      ELSE LET seeded == IF i = 1
                           THEN [items EXCEPT ![1].TotalDistance =
                                                 m_initialDistance]
                           ELSE items
               ti0 == seeded[i]
               ti1 == seeded[i + 1]
               delta == distance(ti0.Latitude, ti0.Longitude,
                                 ti1.Latitude, ti1.Longitude)
           IN  DistancesFrom(
                   [seeded EXCEPT ![i + 1].DistanceDelta = delta,
                                  ![i + 1].TotalDistance =
                                      RAdd(ti0.TotalDistance, delta)],
                   i + 1, m_initialDistance)

\* void UpdateDistances(): the m_items it can leave.
UpdateDistances(items, m_initialDistance) ==
    IF Len(items) < 1
      THEN {items}
      ELSE {DistancesFrom(s, 1, m_initialDistance) : s \in Sorted(items)}

\* ------------------------------------------------------------------------
\* GPX::LoadFromFile
\* ------------------------------------------------------------------------
RECURSIVE LoadFromFileFrom(_, _, _, _, _, _, _)
\* The outer BOOST_FOREACH from the k-th child of gpx.trk on: the outcomes it
\* can have, as the return value ("abort" for a failed assert) and
\* m_trackSegments. first and initialDistance are the locals of that name,
\* frequency is interpolationFrequency, stored is m_trackSegments so far.
LoadFromFileFrom(file, k, first, frequency, initialDistance, stored, checked) ==
    IF k > Len(file)
      THEN {[ok |-> "true", m_trackSegments |-> stored]}
      ELSE LET parsed == ParsedItems(file[k], first)
               segment == UpdateBearing(parsed)
               r == IF frequency # 0
                      THEN InterpolateOf(segment, Dbl(frequency), TrackItem,
                                         checked)
                      ELSE [returned |-> "segment", items |-> segment]
           IN  IF (checked /\ AddItemFails(parsed)) \/ r.returned = "abort"
                 THEN {[ok |-> "abort", m_trackSegments |-> stored]}
                 ELSE IF r.returned = "null"
                        THEN {[ok |-> "false", m_trackSegments |-> stored]}
                        ELSE UNION {
                          LoadFromFileFrom(file, k + 1,
                              first /\ Len(file[k]) = 0,
                              frequency,
                              IF Len(s) > 0
                                THEN s[Len(s)].TotalDistance
                                ELSE initialDistance,
                              IF Len(s) > 0 THEN Append(stored, s) ELSE stored,
                              checked) :
                          s \in UpdateDistances(r.items, initialDistance)}

\* bool GPX::LoadFromFile(path, interpolationFrequency) on a new GPX object
\* whose m_initialDistance was set.
LoadFromFileOf(file, interpolationFrequency, m_initialDistance, checked) ==
    LoadFromFileFrom(file, 1, TRUE, interpolationFrequency,
                     m_initialDistance, <<>>, checked)

\* GPX::TotalDistance()
TotalDistance(trackSegments, m_initialDistance) ==
    IF Len(trackSegments) = 0
      THEN m_initialDistance
      ELSE LET back == trackSegments[Len(trackSegments)]
           IN  IF Len(back) = 0
                 THEN m_initialDistance
                 ELSE back[Len(back)].TotalDistance

\* ------------------------------------------------------------------------
\* LoadSegments  (src/utils.cpp)
\* ------------------------------------------------------------------------
RECURSIVE PushedFrom(_, _, _, _, _)
\* for (auto seg : *gpx) from the k-th segment on: the segments vector after
\* it, and whether SplitIdleSegments ended the process.
PushedFrom(trackSegments, k, splitIdleParts, segs, checked) ==
    IF k > Len(trackSegments)
      THEN [aborted |-> FALSE, segments |-> segs]
      ELSE IF splitIdleParts
             THEN LET r == SplitIdleSegmentsOf(trackSegments[k], <<>>, checked)
                  IN  IF r.aborted
                        THEN [aborted |-> TRUE, segments |-> segs]
                        ELSE PushedFrom(trackSegments, k + 1, splitIdleParts,
                                        segs \o r.segments, checked)
             ELSE PushedFrom(trackSegments, k + 1, splitIdleParts,
                             Append(segs, trackSegments[k]), checked)

\* return true: what LoadSegments returns after a LoadFromFile that returned
\* loaded.
LoadSegmentsReturn(loaded) == "true"

RECURSIVE LoadSegmentsFrom(_, _, _, _, _, _, _, _)
\* The for loop over inputGPXPaths from the n-th file on: the outcomes it can
\* have. last is the outcome of the latest LoadFromFile, whose return value the
\* code drops.
LoadSegmentsFrom(files, n, fps, splitIdleParts, initialDistance, segs, last, checked) ==
    IF n > Len(files)
      THEN {[aborted |-> FALSE, ok |-> LoadSegmentsReturn(last.ok),
             segments |-> segs, gpx |-> last]}
      ELSE UNION {
        LET pushed == PushedFrom(o.m_trackSegments, 1, splitIdleParts, segs,
                                 checked)
        IN  IF o.ok = "abort" \/ pushed.aborted
              THEN {[aborted |-> TRUE, ok |-> NotCalled, segments |-> segs,
                     gpx |-> o]}
              ELSE LoadSegmentsFrom(files, n + 1, fps, splitIdleParts,
                       TotalDistance(o.m_trackSegments, initialDistance),
                       pushed.segments, o, checked) :
        o \in LoadFromFileOf(files[n], fps, initialDistance, checked)}

\* LoadSegments(inputGPXPaths, segments, fps, splitIdleParts), called once on
\* an empty vector.
LoadSegments(fps, splitIdleParts) ==
    /\ ~aborted
    /\ loadSegments = NotCalled
    /\ \E o \in LoadSegmentsFrom(gpxFiles, 1, fps, splitIdleParts, Dbl(0),
                                 segments,
                                 [ok |-> "true", m_trackSegments |-> <<>>],
                                 asserts) :
         /\ segments' = o.segments
         /\ loadSegments' = o.ok
         /\ loadFromFile' = o.gpx.ok
         /\ m_trackSegments' = o.gpx.m_trackSegments
         /\ aborted' = o.aborted
    /\ UNCHANGED <<gpxFiles, seg, idleSegments, interp, interp2, nextItem,
                   item, closest, range, rangeFound>>
    /\ UNCHANGED <<tileVars, swVars, asserts, matchVars, restVars>>

\* ------------------------------------------------------------------------
\* ComputeMapSegmentsForGpxVideos  (src/utils.cpp)
\* ------------------------------------------------------------------------
\* operator!=(const AVRational &a, const AVRational &b)
RateDiffers_Value(a, b) == a[1] * b[2] # b[1] * a[2]
RateDiffers(a, b) == ~(a[1] = b[1] /\ a[2] = b[2])

\* i0.Duration = gpxInfo[j].Start - i0.Start + gpxInfo[j].Duration
MergedDuration_Sum(i0, g) == RAdd(i0.Duration, g.Duration)
MergedDuration(i0, g) == RAdd(Dbl(g.Start - i0.Start), g.Duration)

RECURSIVE InnerFrom(_, _, _, _, _, _, _)
\* The inner while loop from j on (0-based): how it ends ("break" for the end
\* of the loop, "false" for return false, "abort" for a failed assert) and
\* the locals i0, fileId and j then. FrameCount is unsigned and the sum is
\* taken modulo 2^32, which the frame counts of the model stay far below.
InnerFrom(infos, times, j, i0, seq, fileId, checked) ==
    IF ~(j < Len(infos))
      THEN [returned |-> "break", i0 |-> i0, fileId |-> fileId, j |-> j]
      ELSE LET i1 == infos[j + 1]
           IN  IF i1.FileId # i0.FileId
                 THEN [returned |-> "break", i0 |-> i0, fileId |-> fileId,
                       j |-> j]
                 ELSE IF i1.FileSequence # seq + 1
                           \/ RateDiffers(i1.FrameRate, i0.FrameRate)
                        THEN [returned |-> "false", i0 |-> i0,
                              fileId |-> fileId, j |-> j]
                        ELSE IF checked /\ ~(i0.Start < times[j + 1].Start)
                               THEN [returned |-> "abort", i0 |-> i0,
                                     fileId |-> fileId, j |-> j]
                               ELSE InnerFrom(infos, times, j + 1,
                                      [i0 EXCEPT
                                         !.FrameCount = @ + i1.FrameCount,
                                         !.Duration =
                                            MergedDuration(i0, times[j + 1])],
                                      i1.FileSequence, i1.FileId, checked)

RECURSIVE OuterFrom(_, _, _, _, _, _)
\* The outer while loop from i on (0-based): what the function returns
\* ("abort" for a failed assert) and the segments vector then.
OuterFrom(infos, times, i, fileId, segs, checked) ==
    IF ~(i < Len(infos))
      THEN [returned |-> "true", segments |-> segs]
      ELSE IF checked /\ ~(infos[i + 1].FileId > fileId)
             THEN [returned |-> "abort", segments |-> segs]
             ELSE LET i0 == [infos[i + 1] EXCEPT
                                !.Start = times[i + 1].Start,
                                !.Duration = times[i + 1].Duration]
                      r == InnerFrom(infos, times, i + 1, i0,
                                     i0.FileSequence, fileId, checked)
                  IN  IF r.returned = "break"
                        THEN OuterFrom(infos, times, r.j, r.fileId,
                                       Append(segs, r.i0), checked)
                        ELSE [returned |-> r.returned, segments |-> segs]

NoFileId == 0 - 1

\* The overload with gpxInfo.
WithGpxInfo(infos, times, segs, checked) ==
    IF Len(times) # Len(infos)
      THEN [returned |-> "false", segments |-> segs]
      ELSE OuterFrom(infos, times, 0, NoFileId, segs, checked)

\* The overload without gpxInfo: Start and Duration are those of videoInfo.
OwnTimes(infos) ==
    [k \in 1..Len(infos) |->
        [Start |-> infos[k].Start, Duration |-> infos[k].Duration]]

WithoutGpxInfo(infos, segs, checked) ==
    OuterFrom(infos, OwnTimes(infos), 0, NoFileId, segs, checked)

\* The inputs: up to MaxFiles files named GX-<id>-<sequence>, each with a
\* frame rate and a frame count that tells the files apart.
MaxFiles == 3
FileIds == {0, 1}
FileSequences == {0, 1, 2}
FrameRates == {<<60, 1>>, <<120, 2>>}
FileLength == 100

\* Start and Duration of the k-th file of a list: files that follow each
\* other at once, files with a pause between them, files that all start at
\* the same second, and no times at all (the defaults of VideoInfo).
TimeShapes == {"contiguous", "paused", "same", "unset"}
TimesOf(shape, k) ==
    CASE shape = "contiguous" ->
           [Start |-> 123 + FileLength * (k - 1), Duration |-> Dbl(FileLength)]
      [] shape = "paused" ->
           [Start |-> 123 + 2 * FileLength * (k - 1),
            Duration |-> Rat(2 * FileLength + 1, 2)]
      [] shape = "same" ->
           [Start |-> 123, Duration |-> Dbl(FileLength)]
      [] OTHER -> [Start |-> 0, Duration |-> Dbl(0)]

VideoInfo(id, sequence, rate, k, times) ==
    [FileId |-> id, FileSequence |-> sequence, FrameRate |-> rate,
     FrameCount |-> 60 * FileLength + k + 10 * sequence,
     Start |-> times.Start, Duration |-> times.Duration]

RECURSIVE VideoInfosOf(_, _)
\* The VideoInfo vectors of n files whose times have the given shape.
VideoInfosOf(n, shape) ==
    IF n = 0
      THEN {<<>>}
      ELSE {Append(v, VideoInfo(id, s, r, n, TimesOf(shape, n))) :
               v \in VideoInfosOf(n - 1, shape), id \in FileIds,
               s \in FileSequences, r \in FrameRates}

\* The GPXInfo vectors for n videos: one entry per video, or one short.
GpxInfos(n) ==
    {[k \in 1..m |-> TimesOf(shape, k)] :
        m \in {n} \cup ({n - 1} \cap Nat),
        shape \in TimeShapes \ {"unset"}}

\* ComputeMapSegmentsForGpxVideos(videoInfo, gpxInfo, segments), called once
\* on an empty vector.
ComputeMapSegmentsForGpxVideos ==
    /\ ~aborted
    /\ matched = NotCalled
    /\ LET r == WithGpxInfo(videoInfo, gpxInfo, segmentInfo, asserts)
       IN  /\ segmentInfo' = r.segments
           /\ matched' = IF r.returned = "abort" THEN NotCalled ELSE r.returned
           /\ aborted' = (r.returned = "abort")
    /\ UNCHANGED <<videoInfo, gpxInfo>>
    /\ UNCHANGED <<tileVars, swVars, asserts, trackVars, restVars>>

\* ComputeMapSegmentsForGpxVideos(videoInfo, segments), called once on an
\* empty vector.
ComputeMapSegmentsForVideos ==
    /\ ~aborted
    /\ matched = NotCalled
    /\ LET r == WithoutGpxInfo(videoInfo, segmentInfo, asserts)
       IN  /\ segmentInfo' = r.segments
           /\ matched' = IF r.returned = "abort" THEN NotCalled ELSE r.returned
           /\ aborted' = (r.returned = "abort")
    /\ UNCHANGED <<videoInfo, gpxInfo>>
    /\ UNCHANGED <<tileVars, swVars, asserts, trackVars, restVars>>

\* ------------------------------------------------------------------------
\* A GPXSegment and its mutating operations  (include/gpsmap/gpx.h)
\* ------------------------------------------------------------------------
\* The points a caller adds: a timestamp and a node of the grid.
SegmentTimes == {0, 1}
SegmentItems ==
    {[TrackItem EXCEPT !.Timestamp = Dbl(t), !.Latitude = Dbl(p[1]),
                       !.Longitude = Dbl(p[2])] :
        t \in SegmentTimes, p \in FilePositions}

\* The initialDistance given to GPXSegment::Create.
InitialDistances == {<<0, 1>>, <<5, 1>>}

\* The vectors given to AppendFront: one point, or two at the first node.
FrontItems ==
    {<<a>> : a \in SegmentItems} \cup
    {<<a, b>> : a \in {x \in SegmentItems : x.Longitude = Dbl(0)},
                b \in {x \in SegmentItems : x.Longitude = Dbl(0)}}

\* m_items.insert(m_items.begin(), items.begin(), items.end())
AppendFront(m_items, items) == items \o m_items

\* seg->AddItem(item): the assert ends the process in a build that keeps it.
SegmentAddItem(it) ==
    /\ ~aborted
    /\ Len(seg) < MaxPoints
    /\ IF asserts /\ ~AddItemAllowed(seg, it)
         THEN aborted' = TRUE /\ seg' = seg
         ELSE aborted' = FALSE /\ seg' = AddItem(seg, it)
    /\ segOp' = "AddItem"
    /\ UNCHANGED <<gpxFiles, idleSegments, interp, interp2, m_trackSegments,
                   loadFromFile, segments, loadSegments, nextItem, item,
                   closest, range, rangeFound>>
    /\ UNCHANGED <<tileVars, swVars, asserts, matchVars, seg_initialDistance,
                   wholeTrack, extraVars>>

\* seg->AppendFront(items)
SegmentAppendFront(items) ==
    /\ ~aborted
    /\ Len(seg) + Len(items) <= MaxPoints
    /\ seg' = AppendFront(seg, items)
    /\ segOp' = "AppendFront"
    /\ UNCHANGED <<gpxFiles, idleSegments, interp, interp2, m_trackSegments,
                   loadFromFile, segments, loadSegments, nextItem, item,
                   closest, range, rangeFound>>
    /\ UNCHANGED <<tileVars, swVars, asserts, aborted, matchVars, seg_initialDistance,
                   wholeTrack, extraVars>>

\* seg->UpdateDistances()
SegmentUpdateDistances ==
    /\ ~aborted
    /\ seg' \in UpdateDistances(seg, seg_initialDistance)
    /\ segOp' = "UpdateDistances"
    /\ UNCHANGED <<gpxFiles, idleSegments, interp, interp2, m_trackSegments,
                   loadFromFile, segments, loadSegments, nextItem, item,
                   closest, range, rangeFound>>
    /\ UNCHANGED <<tileVars, swVars, asserts, aborted, matchVars, seg_initialDistance,
                   wholeTrack, extraVars>>

\* seg->UpdateBearing()
SegmentUpdateBearing ==
    /\ ~aborted
    /\ seg' = UpdateBearing(seg)
    /\ segOp' = "UpdateBearing"
    /\ UNCHANGED <<gpxFiles, idleSegments, interp, interp2, m_trackSegments,
                   loadFromFile, segments, loadSegments, nextItem, item,
                   closest, range, rangeFound>>
    /\ UNCHANGED <<tileVars, swVars, asserts, aborted, matchVars, seg_initialDistance,
                   wholeTrack, extraVars>>

\* A call that was not made.
NoCall == [returned |-> NotCalled, items |-> <<>>]

\* ------------------------------------------------------------------------
\* MergeSegments  (src/gpx.cpp)
\* ------------------------------------------------------------------------
\* for (auto &item : *seg) ret->AddItem(item): m_items of ret after a whole
\* segment.
AfterSegment_Front(m_items, s) == s \o m_items
AfterSegment(m_items, s) == m_items \o s

RECURSIVE MergeFrom(_, _, _)
\* The outer loop from the k-th segment of the list on.
MergeFrom(segs, k, m_items) ==
    IF k > Len(segs)
      THEN m_items
      ELSE MergeFrom(segs, k + 1, AfterSegment(m_items, segs[k]))

\* GPXSegmentPtr MergeSegments(const GPXSegments &segments): "abort" when an
\* assert of AddItem fails.
MergeSegmentsOf(segs, checked) ==
    LET m_items == MergeFrom(segs, 1, <<>>)
    IN  IF checked /\ AddItemFails(m_items)
          THEN [returned |-> "abort", items |-> <<>>]
          ELSE [returned |-> "segment", items |-> m_items]

\* GPXSegmentPtr wholeTrack = MergeSegments(segments)
MergeSegments ==
    /\ ~aborted
    /\ wholeTrack = NoCall
    /\ wholeTrack' = MergeSegmentsOf(segments, asserts)
    /\ aborted' = (wholeTrack'.returned = "abort")
    /\ UNCHANGED <<trackVars, seg_initialDistance, segOp>>
    /\ UNCHANGED <<tileVars, swVars, asserts, matchVars, extraVars>>

\* ------------------------------------------------------------------------
\* The parts of the track model and of the matcher that a run does not use
\* ------------------------------------------------------------------------
LoadIdle ==
    /\ gpxFiles = <<>>
    /\ interp = NoCall
    /\ interp2 = NoCall
    /\ m_trackSegments = <<>>
    /\ loadFromFile = NotCalled
    /\ loadSegments = NotCalled

SplitIdle == idleSegments = <<>>

ClosestIdle ==
    /\ nextItem = 0
    /\ item = TrackItem
    /\ closest = NotCalled

RangeIdle ==
    /\ range = NoRange
    /\ rangeFound = NotCalled

TrackIdle ==
    /\ LoadIdle
    /\ SplitIdle
    /\ ClosestIdle
    /\ RangeIdle
    /\ seg = <<>>
    /\ segments = <<>>

MatcherIdle ==
    /\ videoInfo = <<>>
    /\ gpxInfo = <<>>
    /\ segmentInfo = <<>>
    /\ matched = NotCalled

SegmentIdle ==
    /\ seg_initialDistance = Dbl(0)
    /\ wholeTrack = NoCall
    /\ segOp = NotCalled

CallbackIdle ==
    /\ lastCb = [override |-> FALSE, index |-> 0]
    /\ released = FALSE

EncodingIdle ==
    /\ encoding = <<>>
    /\ s_filesWithErrors = <<>>
    /\ mainReturned = NotCalled

ChunkIdle ==
    /\ videos = <<>>
    /\ vi = 1
    /\ frameCount = 0
    /\ startFrame = 0
    /\ chunk_j = 0
    /\ tasks = <<>>
    /\ chunkPc = "for"

ExtraIdle == CallbackIdle /\ EncodingIdle /\ ChunkIdle

RestIdle == SegmentIdle /\ ExtraIdle

UtilsIdle ==
    /\ asserts = TRUE
    /\ aborted = FALSE
    /\ TrackIdle
    /\ MatcherIdle
    /\ RestIdle

\* ------------------------------------------------------------------------
\* The tile cache with its worker threads
\* ------------------------------------------------------------------------
DiskStates == {"absent", "empty", "good", "corrupt"}

InitTiles ==
    /\ pc = [t \in Threads |-> "idle"]
    /\ key = [t \in Threads |-> StuckKey]
    /\ ret = [t \in Threads |-> NoTile]
    /\ found = [t \in Threads |-> FALSE]
    /\ result = [t \in Threads |-> NoTile]
    /\ calls = [t \in Threads |-> 0]
    /\ m_lock = NoThread
    /\ m_tiles = [k \in Keys |-> NoTile]
    /\ heap = <<>>
    /\ dirExists \in BOOLEAN
    /\ disk \in [Keys -> DiskStates]
    /\ dirExists = FALSE => \A k \in Keys : disk[k] = "absent"
    /\ fetches = [k \in Keys |-> 0]

Init == InitTiles /\ SwitcherIdle /\ UtilsIdle

Step(t) ==
    \/ GetTileLock(t)
    \/ GetTileFind(t)
    \/ DownloadTileIsDir(t)
    \/ DownloadTileMkdir(t)
    \/ DownloadTileExists(t)
    \/ TileLoad(t)
    \/ TileLoadNotify(t)
    \/ TileFail(t)
    \/ TileFailNotify(t)
    \/ WaitUntilDownloaded(t)

Next ==
    \/ \E t \in Threads, k \in Keys : GetTileCall(t, k)
    \/ \E t \in Threads : Step(t)
    \/ \E t \in Threads : DownloadFile(t)
    \/ \E t \in Threads : SpuriousWake(t)

Spec == Init /\ [][Next]_vars

\* The runs in which the tile of StuckKey has to come from the network.
InitStuck == Init /\ disk[StuckKey] = "absent"

\* Every runnable thread is eventually scheduled and every transfer ends,
\* except that the transfer of StuckKey may hang forever.
SpecStuck ==
    /\ InitStuck
    /\ [][Next]_vars
    /\ \A t \in Threads : WF_vars(Step(t))
    /\ \A t \in Threads : WF_vars(DownloadFile(t) /\ key[t] # StuckKey)

\* ------------------------------------------------------------------------
\* The zoom state machine fed with frames
\* ------------------------------------------------------------------------
TilesIdle ==
    /\ pc = [t \in Threads |-> "idle"]
    /\ key = [t \in Threads |-> StuckKey]
    /\ ret = [t \in Threads |-> NoTile]
    /\ found = [t \in Threads |-> FALSE]
    /\ result = [t \in Threads |-> NoTile]
    /\ calls = [t \in Threads |-> 0]
    /\ m_lock = NoThread
    /\ m_tiles = [k \in Keys |-> NoTile]
    /\ heap = <<>>
    /\ dirExists = FALSE
    /\ disk = [k \in Keys |-> "absent"]
    /\ fetches = [k \in Keys |-> 0]

InitSw == TilesIdle /\ InitSwitcher /\ UtilsIdle

NextSw ==
    \/ \E d \in 0..MaxDuration : AddMapGenerator(d)
    \/ \E f \in 0..MaxFrame, fps \in FpsSet : ComputeFrame(f, fps)

SpecSwitcher == InitSw /\ [][NextSw]_vars

\* ------------------------------------------------------------------------
\* The zoom state machine with an arbitrary override callback
\* ------------------------------------------------------------------------
\* What m_cb(second, overrideIndex) can answer: false, or true with an
\* unsigned overrideIndex, in range, just out of range or -1 converted.
CallbackResults ==
    {[override |-> FALSE, index |-> 0]}
      \cup {[override |-> TRUE, index |-> i] : i \in 0..MaxMaps}
      \cup {[override |-> TRUE, index |-> MinusOne]}

\* ms->ComputeState(item, i, fps) on one switcher whose callback answers cb
\* if it is evaluated; the caller's i counts the calls (for (item) { ...; ++i }).
ComputeStateCall(frameIndex, fps, cb) ==
    /\ Len(sw.m_maps) >= 1
    /\ nframes < MaxSteps
    /\ sw' = ComputeStateWith(sw, cb, frameIndex, fps)
    /\ mapIndex' = sw'.m_currentMapIndex
    /\ nframes' = nframes + 1
    /\ inOrder' = (inOrder /\ Second(frameIndex, fps) \in
                                {sw.m_prevSecond, sw.m_prevSecond + 1}
                           /\ Second(frameIndex, fps) >= 0)
    /\ asked' = Consults(sw, frameIndex, fps)
    /\ lastCb' = IF Consults(sw, frameIndex, fps) THEN cb ELSE lastCb
    /\ released' = IF Consults(sw, frameIndex, fps)
                     THEN lastCb.override /\ ~cb.override
                     ELSE released
    /\ UNCHANGED <<sw2, policy, mapIndex2>>
    /\ UNCHANGED <<tileVars, asserts, aborted, trackVars, matchVars, segVars,
                   encVars, chunkVars>>

InitOverride ==
    /\ TilesIdle
    /\ InitSwitcher
    /\ policy = "never"
    /\ UtilsIdle

NextOverride ==
    \/ \E d \in 0..MaxDuration : AddMapGenerator(d)
    \/ \E fps \in FpsSet, cb \in CallbackResults :
         ComputeStateCall(nframes, fps, cb)

SpecOverride == InitOverride /\ [][NextOverride]_vars

\* ------------------------------------------------------------------------
\* The encoding tasks and the exit status  (src/main.cpp, src/encoder.cpp)
\* ------------------------------------------------------------------------
MaxTaskFrames == 2

\* The output files of the submitted tasks (EncodingParams::getFileName).
OutputFiles == {"000-000.mp4", "000-001.mp4"}

\* The frames of a task, as the Valid flags of its TrackItems.
FrameLists == UNION {[1..n -> BOOLEAN] : n \in 1..MaxTaskFrames}

\* bool GenerateFrame(encoder, os, state): what it returns and the value of
\* state.failed afterwards; mapOk and labelOk are what
\* state.mapSwitcher->Generate and state.labelGen->Generate return.
GenerateFrame(frames, next_pts, failed, mapOk, labelOk) ==
    IF next_pts >= Len(frames)
      THEN [returned |-> FALSE, failed |-> failed]
      ELSE IF ~frames[next_pts + 1]
        THEN [returned |-> TRUE, failed |-> failed]
        ELSE IF ~mapOk
          THEN [returned |-> FALSE, failed |-> TRUE]
          ELSE IF ~labelOk
            THEN [returned |-> FALSE, failed |-> TRUE]
            ELSE [returned |-> TRUE, failed |-> failed]

\* EncodeOneSegment up to VideoEncoder::Create: fs.failed = false, and
\* std::bind stores a copy of fs, whose failed flag is the one GenerateFrame
\* writes. Without an encoder the task returns.
EncodeOneSegment(f, created) ==
    /\ mainReturned = NotCalled
    /\ encoding[f].phase = "queued"
    /\ encoding' = [encoding EXCEPT ![f].phase = IF created THEN "encoding"
                                                   ELSE "returned",
                                    ![f].fs_failed = FALSE,
                                    ![f].bound_failed = FALSE]
    /\ UNCHANGED <<s_filesWithErrors, mainReturned>>
    /\ UNCHANGED <<tileVars, swVars, asserts, aborted, trackVars, matchVars,
                   segVars, cbVars, chunkVars>>

\* One iteration of VideoEncoder::EncodeLoop: WriteVideoFrame asks the bound
\* GenerateFrame for the frame next_pts; a frame advances next_pts, no frame
\* flushes the encoder and ends the loop, after which EncodeOneSegment
\* finalizes the file and returns.
WriteVideoFrame(f, mapOk, labelOk) ==
    /\ mainReturned = NotCalled
    /\ encoding[f].phase = "encoding"
    /\ LET e == encoding[f]
           g == GenerateFrame(e.frames, e.next_pts, e.bound_failed, mapOk,
                              labelOk)
       IN  encoding' = [encoding EXCEPT
                          ![f].bound_failed = g.failed,
                          ![f].next_pts = IF g.returned THEN e.next_pts + 1
                                                        ELSE e.next_pts,
                          ![f].phase = IF g.returned THEN "encoding"
                                                     ELSE "returned"]
    /\ UNCHANGED <<s_filesWithErrors, mainReturned>>
    /\ UNCHANGED <<tileVars, swVars, asserts, aborted, trackVars, matchVars,
                   segVars, cbVars, chunkVars>>

\* main after tasks.wait(true): -1 if s_filesWithErrors is not empty, else 0.
MainReturn ==
    /\ mainReturned = NotCalled
    /\ \A f \in OutputFiles : encoding[f].phase = "returned"
    /\ mainReturned' = IF Len(s_filesWithErrors) > 0 THEN "-1" ELSE "0"
    /\ UNCHANGED <<encoding, s_filesWithErrors>>
    /\ UNCHANGED <<tileVars, swVars, asserts, aborted, trackVars, matchVars,
                   segVars, cbVars, chunkVars>>

\* The tasks pushed to the thread pool, none started yet.
InitEncode ==
    /\ TilesIdle
    /\ SwitcherIdle
    /\ asserts = TRUE
    /\ aborted = FALSE
    /\ TrackIdle
    /\ MatcherIdle
    /\ SegmentIdle
    /\ CallbackIdle
    /\ ChunkIdle
    /\ encoding \in [OutputFiles ->
                       {[frames |-> fr, phase |-> "queued", next_pts |-> 0,
                         fs_failed |-> FALSE, bound_failed |-> FALSE] :
                          fr \in FrameLists}]
    /\ s_filesWithErrors = <<>>
    /\ mainReturned = NotCalled

NextEncode ==
    \/ \E f \in OutputFiles, created \in BOOLEAN : EncodeOneSegment(f, created)
    \/ \E f \in OutputFiles, mapOk \in BOOLEAN, labelOk \in BOOLEAN :
         WriteVideoFrame(f, mapOk, labelOk)
    \/ MainReturn

SpecEncode == InitEncode /\ [][NextEncode]_vars

\* ------------------------------------------------------------------------
\* The chunking loop of MatchExternalGPXWithEmbeddedVideoTimestamps
\* ------------------------------------------------------------------------
MaxChunks == 2

\* AVRational g_fps = {60000, 1001}
g_fps == Rat(60000, 1001)

\* unsigned framesPerChunk = fps * 60.0 * 5
FramesPerChunk == TimeT(RMul(RMul(g_fps, Dbl(60)), Dbl(5)))

\* vi.FrameCount: whole chunks, one frame less and one frame more.
FrameCounts ==
    {n \in {k * FramesPerChunk + d : k \in 0..MaxChunks, d \in {0 - 1, 0, 1}} :
       n >= 0}

\* The descriptors read by DeserializeVideoInfos, FileId counting from 0;
\* matched is what GetSegmentRange returns for the descriptor, in which case
\* trackItems holds FrameCount items (the assert after the call).
VideoLists ==
    UNION {{v \in [1..n -> [FileId : 0..1, FrameCount : FrameCounts,
                            matched : BOOLEAN]] :
              \A k \in 1..n : v[k].FileId = k - 1} : n \in 1..2}

\* framesInChunk = frameCount > framesPerChunk ? framesPerChunk : frameCount
FramesInChunk_Whole(count, framesPerChunk) == framesPerChunk
FramesInChunk(count, framesPerChunk) ==
    IF count > framesPerChunk THEN framesPerChunk ELSE count

\* The EncodingParams of one chunk; frames holds trackItems[i + startFrame]
\* for i < framesInChunk, kept as the range of those indices.
Chunk(v, segmentSequenceId, first, framesInChunk) ==
    [fileSequenceId |-> v.FileId, segmentSequenceId |-> segmentSequenceId,
     first |-> first, count |-> framesInChunk]

\* for (const auto &vi : videoInfo): the next descriptor, skipped if
\* GetSegmentRange fails; return true after the last one.
NextVideoInfo ==
    /\ chunkPc = "for"
    /\ IF vi > Len(videos)
         THEN /\ chunkPc' = "returned"
              /\ UNCHANGED <<vi, frameCount, startFrame, chunk_j>>
         ELSE IF ~videos[vi].matched
           THEN /\ vi' = vi + 1
                /\ UNCHANGED <<chunkPc, frameCount, startFrame, chunk_j>>
           ELSE /\ frameCount' = videos[vi].FrameCount
                /\ chunk_j' = 0
                /\ startFrame' = 0
                /\ chunkPc' = "while"
                /\ UNCHANGED vi
    /\ UNCHANGED <<videos, tasks>>
    /\ UNCHANGED <<tileVars, swVars, asserts, aborted, trackVars, matchVars,
                   segVars, cbVars, encVars>>

\* while (frameCount > 0) { ... }: one iteration, or the exit of the loop.
ChunkLoop ==
    /\ chunkPc = "while"
    /\ IF frameCount > 0
         THEN LET framesInChunk == FramesInChunk(frameCount, FramesPerChunk)
              IN  /\ tasks' = Append(tasks, Chunk(videos[vi], chunk_j, startFrame,
                                                  framesInChunk))
                  /\ frameCount' = frameCount - framesInChunk
                  /\ startFrame' = startFrame + framesInChunk
                  /\ chunk_j' = chunk_j + 1
                  /\ UNCHANGED <<vi, chunkPc>>
         ELSE /\ vi' = vi + 1
              /\ chunkPc' = "for"
              /\ UNCHANGED <<tasks, frameCount, startFrame, chunk_j>>
    /\ UNCHANGED videos
    /\ UNCHANGED <<tileVars, swVars, asserts, aborted, trackVars, matchVars,
                   segVars, cbVars, encVars>>

InitChunk ==
    /\ TilesIdle
    /\ SwitcherIdle
    /\ asserts = TRUE
    /\ aborted = FALSE
    /\ TrackIdle
    /\ MatcherIdle
    /\ SegmentIdle
    /\ CallbackIdle
    /\ EncodingIdle
    /\ videos \in VideoLists
    /\ vi = 1
    /\ frameCount = 0
    /\ startFrame = 0
    /\ chunk_j = 0
    /\ tasks = <<>>
    /\ chunkPc = "for"

NextChunk ==
    \/ NextVideoInfo
    \/ ChunkLoop

SpecChunk == InitChunk /\ [][NextChunk]_vars

\* The function runs on the main thread and blocks nowhere in the loops:
\* it keeps taking steps until it returns.
SpecChunkFair == SpecChunk /\ WF_vars(NextChunk)

\* ------------------------------------------------------------------------
\* A segment looked up with a cursor
\* ------------------------------------------------------------------------
InitClosest ==
    /\ TilesIdle
    /\ SwitcherIdle
    /\ MatcherIdle
    /\ RestIdle
    /\ asserts = TRUE
    /\ aborted = FALSE
    /\ LoadIdle
    /\ SplitIdle
    /\ RangeIdle
    /\ segments = <<>>
    /\ seg \in TimedSegments
    /\ nextItem \in {0, MaxPoints}
    /\ item = TrackItem
    /\ closest = NotCalled

NextClosest == \E t \in 0..MaxTime : GetClosestItem(t)

SpecClosest == InitClosest /\ [][NextClosest]_vars

\* ------------------------------------------------------------------------
\* A list of one or two segments searched for an interval
\* ------------------------------------------------------------------------
SegmentLists ==
    {<<a>> : a \in TimedSegments} \cup
    {<<a, b>> : a \in TimedSegments, b \in TimedSegments}

InitRange ==
    /\ TilesIdle
    /\ SwitcherIdle
    /\ MatcherIdle
    /\ RestIdle
    /\ asserts = TRUE
    /\ aborted = FALSE
    /\ LoadIdle
    /\ SplitIdle
    /\ ClosestIdle
    /\ seg = <<>>
    /\ segments \in SegmentLists
    /\ range = NoRange
    /\ rangeFound = NotCalled

NextRange ==
    \E start \in 0..MaxTime, duration \in Durations :
        GetSegmentRange(start, duration)

SpecRange == InitRange /\ [][NextRange]_vars

\* ------------------------------------------------------------------------
\* A segment split at its idle stretches
\* ------------------------------------------------------------------------
InitSplit ==
    /\ TilesIdle
    /\ SwitcherIdle
    /\ MatcherIdle
    /\ RestIdle
    /\ asserts \in BOOLEAN
    /\ aborted = FALSE
    /\ LoadIdle
    /\ ClosestIdle
    /\ RangeIdle
    /\ segments = <<>>
    /\ seg \in ParsedSegments
    /\ idleSegments = <<>>

NextSplit == SplitIdleSegments

SpecSplit == InitSplit /\ [][NextSplit]_vars

\* ------------------------------------------------------------------------
\* A GPX file loaded, and its track interpolated
\* ------------------------------------------------------------------------
\* A file is a track of one <trkseg>, or of two of at most two points each,
\* the first of which has no point or two points at one place.
LeadTrkSegs ==
    {s \in TrkSegsOf(0) \cup TrkSegsOf(2) :
        \A i \in 1..Len(s) : s[i].lat = 0 /\ s[i].lon = 0}

GpxFiles ==
    {<<s>> : s \in TrkSegs}
        \cup {<<l, s>> : l \in LeadTrkSegs,
                         s \in TrkSegsOf(0) \cup TrkSegsOf(1) \cup TrkSegsOf(2)}

\* One input path; seg is the last segment of the file as LoadFromFile holds
\* it when it calls Interpolate.
InitLoad ==
    /\ TilesIdle
    /\ SwitcherIdle
    /\ MatcherIdle
    /\ RestIdle
    /\ asserts = TRUE
    /\ aborted = FALSE
    /\ SplitIdle
    /\ ClosestIdle
    /\ RangeIdle
    /\ gpxFiles \in {<<f>> : f \in GpxFiles}
    /\ seg = UpdateBearing(ParsedItems(gpxFiles[1][Len(gpxFiles[1])],
                                       Len(gpxFiles[1]) = 1
                                         \/ Len(gpxFiles[1][1]) = 0))
    /\ interp = NoCall
    /\ interp2 = NoCall
    /\ m_trackSegments = <<>>
    /\ loadFromFile = NotCalled
    /\ segments = <<>>
    /\ loadSegments = NotCalled

NextLoad ==
    \/ \E f \in Frequencies : Interpolate(f)
    \/ \E fps \in {0} \cup Frequencies, splitIdleParts \in BOOLEAN :
          LoadSegments(fps, splitIdleParts)

SpecLoad == InitLoad /\ [][NextLoad]_vars

\* ------------------------------------------------------------------------
\* Video files merged into map segments
\* ------------------------------------------------------------------------
InitMatcher ==
    /\ TilesIdle
    /\ SwitcherIdle
    /\ TrackIdle
    /\ RestIdle
    /\ asserts \in BOOLEAN
    /\ aborted = FALSE
    /\ \E n \in 0..MaxFiles, shape \in {"contiguous", "unset"} :
         /\ videoInfo \in VideoInfosOf(n, shape)
         /\ gpxInfo \in GpxInfos(n)
    /\ segmentInfo = <<>>
    /\ matched = NotCalled

NextMatcher ==
    \/ ComputeMapSegmentsForGpxVideos
    \/ ComputeMapSegmentsForVideos

SpecMatcher == InitMatcher /\ [][NextMatcher]_vars

\* ------------------------------------------------------------------------
\* A segment built and updated by its caller
\* ------------------------------------------------------------------------
InitSegment ==
    /\ TilesIdle
    /\ SwitcherIdle
    /\ MatcherIdle
    /\ asserts \in BOOLEAN
    /\ aborted = FALSE
    /\ LoadIdle
    /\ SplitIdle
    /\ ClosestIdle
    /\ RangeIdle
    /\ segments = <<>>
    /\ seg = <<>>
    /\ seg_initialDistance \in InitialDistances
    /\ wholeTrack = NoCall
    /\ segOp = NotCalled
    /\ ExtraIdle

NextSegment ==
    \/ \E it \in SegmentItems : SegmentAddItem(it)
    \/ \E items \in FrontItems : SegmentAppendFront(items)
    \/ SegmentUpdateDistances
    \/ SegmentUpdateBearing

SpecSegment == InitSegment /\ [][NextSegment]_vars

\* ------------------------------------------------------------------------
\* The segments of a track merged into one
\* ------------------------------------------------------------------------
InitMerge ==
    /\ TilesIdle
    /\ SwitcherIdle
    /\ MatcherIdle
    /\ asserts \in BOOLEAN
    /\ aborted = FALSE
    /\ LoadIdle
    /\ SplitIdle
    /\ ClosestIdle
    /\ RangeIdle
    /\ seg = <<>>
    /\ segments \in SegmentLists
    /\ seg_initialDistance = Dbl(0)
    /\ wholeTrack = NoCall
    /\ segOp = NotCalled
    /\ ExtraIdle

NextMerge == MergeSegments

SpecMerge == InitMerge /\ [][NextMerge]_vars

\* ------------------------------------------------------------------------
\* A track loaded from one or two files of one or two segments each
\* ------------------------------------------------------------------------
\* <trkseg> elements of one point, or of two points two seconds apart, that
\* start at the first node of the grid.
TrackSegs ==
    {s \in TrkSegsOf(1) \cup TrkSegsOf(2) :
        /\ s[1].lat = 0 /\ s[1].lon = 0
        /\ Len(s) = 2 => s[2].time = Dbl(2)}

TrackFiles ==
    {<<s>> : s \in TrackSegs} \cup {<<l, s>> : l \in TrackSegs, s \in TrackSegs}

InitTrack ==
    /\ TilesIdle
    /\ SwitcherIdle
    /\ MatcherIdle
    /\ RestIdle
    /\ asserts = TRUE
    /\ aborted = FALSE
    /\ SplitIdle
    /\ ClosestIdle
    /\ RangeIdle
    /\ gpxFiles \in {<<f>> : f \in TrackFiles}
                      \cup {<<f, g>> : f \in TrackFiles, g \in TrackFiles}
    /\ seg = <<>>
    /\ interp = NoCall
    /\ interp2 = NoCall
    /\ m_trackSegments = <<>>
    /\ loadFromFile = NotCalled
    /\ segments = <<>>
    /\ loadSegments = NotCalled

NextTrack ==
    \E fps \in {0} \cup Frequencies, splitIdleParts \in BOOLEAN :
        LoadSegments(fps, splitIdleParts)

SpecTrack == InitTrack /\ [][NextTrack]_vars

\* ------------------------------------------------------------------------
\* Properties of the tile cache
\* ------------------------------------------------------------------------
\* The thread has returned from a GetTile call.
Returned(t) == pc[t] = "idle" /\ calls[t] > 0

\* Positions of GetTile inside DownloadTile.
InDownloadTile == {"mkdir", "exists", "fetch", "load", "load_notify"}

Fetching(k) == {t \in Threads : key[t] = k /\ pc[t] \in InDownloadTile}
AboutToFetch(k) == {t \in Threads : key[t] = k /\ pc[t] = "download"}

\* C1: for every key, at most one thread is inside DownloadTile at any time,
\* DownloadTile is invoked at most once, and as soon as the key has a cache
\* entry exactly one caller, the one that inserted the placeholder, has
\* invoked it or is about to.
C1_OneFetchPerKey ==
    \A k \in Keys :
        /\ Cardinality(Fetching(k)) <= 1
        /\ fetches[k] + Cardinality(AboutToFetch(k)) =
              (IF m_tiles[k] # NoTile THEN 1 ELSE 0)
        /\ \A t \in Fetching(k) \cup AboutToFetch(k) :
              ~found[t] /\ ret[t] = m_tiles[k]

\* Two callers of the same key, one in the transfer and one blocked on it.
C1_Witness ==
    \E t, u \in Threads :
        /\ t # u
        /\ key[t] = key[u]
        /\ pc[t] = "fetch"
        /\ pc[u] = "sleeping"
        /\ fetches[key[t]] = 1

\* C2: all callers of one key that have returned got the same outcome: nil
\* for every one of them, or the same tile, which is Loaded.
C2_UniformOutcome ==
    \A t, u \in Threads :
        (Returned(t) /\ Returned(u) /\ key[t] = key[u]) =>
            \/ result[t] = NoTile /\ result[u] = NoTile
            \/ /\ result[t] # NoTile
               /\ result[t] = result[u]
               /\ heap[result[t]].state = LOADED

\* C3: a tile is created in Loading, and a tile that is Loaded or Failed
\* keeps its state in every step.
C3_TerminalStates ==
    [][/\ Len(heap') >= Len(heap)
       /\ \A i \in 1..Len(heap) :
             heap[i].state # LOADING => heap'[i].state = heap[i].state
       /\ \A i \in (Len(heap) + 1)..Len(heap') : heap'[i].state = LOADING]_vars

\* The owner has failed the tile and returned, with a waiter still to run.
C3_Witness ==
    \E t, u \in Threads :
        /\ Returned(t) /\ ~found[t]
        /\ heap[ret[t]].state = FAILED
        /\ pc[u] = "woken" /\ ret[u] = ret[t]

\* C4: a waiter that has returned from GetTile left a tile that is not
\* Loading, and a blocked waiter is in the wait set of the tile it found.
C4_WaiterBlocksWhileLoading ==
    \A t \in Threads :
        /\ (Returned(t) /\ found[t]) => heap[ret[t]].state # LOADING
        /\ pc[t] = "sleeping" =>
              (t \in heap[ret[t]].waiters /\ ret[t] = m_tiles[key[t]])

\* A waiter returned after the tile was loaded.
C4_Witness ==
    \E t \in Threads :
        Returned(t) /\ found[t] /\ heap[ret[t]].state = LOADED

\* C5: the cache lock is held only at the lookup-or-insert; no thread holds
\* it while it is in DownloadTile, in Load or Fail, or in WaitUntilDownloaded.
C5_CacheLockOnlyForLookup ==
    \A t \in Threads : m_lock = t => pc[t] = "find"

\* One thread holds the cache lock while another one is in a transfer.
C5_Witness ==
    \E t, u \in Threads : m_lock = t /\ pc[u] = "fetch"

\* C6: while the transfer of StuckKey may hang forever, every GetTile call
\* for another key returns.
C6_OtherKeyReturns ==
    \A t \in Threads :
        (pc[t] # "idle" /\ key[t] # StuckKey) ~> (pc[t] = "idle")

\* The transfer of StuckKey is going on, and a call for another key that
\* inserted its placeholder after StuckKey's has loaded its tile and returned.
C6_Witness ==
    \E t, u \in Threads :
        /\ pc[u] = "fetch" /\ key[u] = StuckKey
        /\ Returned(t) /\ key[t] # StuckKey /\ ~found[t]
        /\ result[t] # NoTile
        /\ ret[t] > ret[u]

\* C7: once the tile of a key is Failed, no step replaces the cache entry of
\* the key, invokes DownloadTile for it or makes a caller its owner.
C7_FailedNeverRetried ==
    [][\A k \in Keys :
          (m_tiles[k] # NoTile /\ heap[m_tiles[k]].state = FAILED) =>
              /\ m_tiles'[k] = m_tiles[k]
              /\ fetches'[k] = fetches[k]
              /\ \A t \in Threads :
                    (key'[t] = k /\ pc'[t] = "download") => pc[t] = "download"]_vars

\* A caller that found the entry of a Failed tile has returned it, every
\* thread is back, and the key was fetched once.
C7_Witness ==
    \E t \in Threads :
        /\ Returned(t) /\ found[t]
        /\ heap[ret[t]].state = FAILED
        /\ fetches[key[t]] = 1
        /\ \A u \in Threads : pc[u] = "idle"

\* C8: an owner that has returned either loaded a decoded image and got the
\* tile, or left the tile Failed, got nil and left no tile file behind; a
\* tile is Loaded only with a decoded image.
C8_OwnerErrorHandling ==
    /\ \A t \in Threads :
          (Returned(t) /\ ~found[t]) =>
              IF heap[ret[t]].image = "ok"
                THEN heap[ret[t]].state = LOADED /\ result[t] = ret[t]
                ELSE /\ heap[ret[t]].state = FAILED
                     /\ result[t] = NoTile
                     /\ disk[key[t]] = "absent"
    /\ \A i \in 1..Len(heap) : heap[i].state = LOADED => heap[i].image = "ok"

RECURSIVE SumTo(_, _)
\* Sum of the first k configured durations.
SumTo(d, k) == IF k = 0 THEN 0 ELSE d[k] + SumTo(d, k - 1)

\* The entry whose slot contains second s when entry k is shown for d[k+1]
\* seconds, starting with entry 0 at second 0, round-robin.
EntryAt(d, s) ==
    CHOOSE k \in 0..(Len(d) - 1) :
        /\ SumTo(d, k) <= s % SumTo(d, Len(d))
        /\ s % SumTo(d, Len(d)) < SumTo(d, k + 1)

AllPositive(d) == \A i \in 1..Len(d) : d[i] > 0

\* C10: with positive durations, a callback that never overrides and the
\* seconds 0, 1, 2, ... fed in order, the frame of second s shows the entry
\* whose slot contains s in the round-robin schedule of period sum(durations).
C10_RoundRobin ==
    (nframes > 0 /\ inOrder /\ policy = "never" /\ AllPositive(sw.m_maps)) =>
        /\ mapIndex = EntryAt(sw.m_maps, sw.m_prevSecond)
        /\ sw.m_currentMapIndex = mapIndex

\* A whole cycle of at least two entries has elapsed and the second one is
\* selected again.
C10_Witness ==
    /\ nframes > 0 /\ inOrder /\ policy = "never" /\ AllPositive(sw.m_maps)
    /\ Len(sw.m_maps) >= 2
    /\ sw.m_prevSecond >= SumTo(sw.m_maps, Len(sw.m_maps)) + sw.m_maps[1]
    /\ mapIndex = 1

\* C11: a ComputeState call whose truncated second equals the second of the
\* previous call leaves the active index, the remaining-duration counter and
\* the previous-second marker unchanged, does not consult the callback and
\* gives the frame the MapIndex of the previous frame.
C11_OncePerSecond ==
    [][\A f \in 0..MaxFrame, fps \in FpsSet :
          (/\ nframes > 0
           /\ Second(f, fps) = sw.m_prevSecond
           /\ ComputeFrame(f, fps)) =>
              /\ sw'.m_currentMapIndex = sw.m_currentMapIndex
              /\ sw'.m_remainingDuration = sw.m_remainingDuration
              /\ sw'.m_prevSecond = sw.m_prevSecond
              /\ ~asked'
              /\ mapIndex' = mapIndex]_vars

\* With two entries and a callback that overrides whenever it is asked, the
\* last of several calls fell into the second of the one before it: the
\* callback was not consulted and the frame kept the index.
C11_Witness ==
    /\ nframes >= 2
    /\ Len(sw.m_maps) > 1
    /\ policy = "always"
    /\ ~asked
    /\ mapIndex = 1

\* ------------------------------------------------------------------------
\* Properties of the look-up by time
\* ------------------------------------------------------------------------
NonDecreasing(items) ==
    \A i \in 1..(Len(items) - 1) :
        RLe(items[i].Timestamp, items[i + 1].Timestamp)

\* C14: on a segment with non-decreasing timestamps, a GetClosestItem(t) that
\* succeeds leaves in the cursor an index i with point[i].timestamp <= t <
\* point[i+1].timestamp, returns point[i], and i is not smaller than the cursor
\* was on entry; no call moves the cursor backward.
C14_ClosestItem ==
    [][\A t \in 0..MaxTime :
          (GetClosestItem(t) /\ NonDecreasing(seg)) =>
              /\ nextItem' >= nextItem
              /\ closest' = "true" =>
                    /\ nextItem' + 2 <= Len(seg)
                    /\ RLe(seg[nextItem' + 1].Timestamp, Dbl(t))
                    /\ RLt(Dbl(t), seg[nextItem' + 2].Timestamp)
                    /\ item' = seg[nextItem' + 1]]_vars

\* A look-up succeeded on a full segment after the cursor had left point 0.
C14_Witness ==
    /\ closest = "true"
    /\ Len(seg) = MaxPoints
    /\ nextItem >= 1
    /\ item = seg[nextItem + 1]

\* C15: GetClosestItem returns not-found when the timestamp precedes the
\* timestamp of the point at the cursor or the cursor is at or past the end,
\* and a call that returns not-found leaves the cursor and the item as they
\* were.
C15_NotFound ==
    [][\A t \in 0..MaxTime :
          GetClosestItem(t) =>
              /\ (\/ nextItem >= Len(seg)
                  \/ RLt(Dbl(t), seg[nextItem + 1].Timestamp)) =>
                     closest' = "false"
              /\ closest' = "false" =>
                     (nextItem' = nextItem /\ item' = item)]_vars

\* After a successful look-up had moved the cursor, a look-up failed and the
\* cursor and the item still are those of the successful one.
C15_Witness ==
    /\ closest = "false"
    /\ nextItem >= 1
    /\ nextItem < Len(seg)
    /\ item = seg[nextItem + 1]

\* The latest point with a timestamp <= t, as a 0-based index.
Latest(items, t) ==
    IF \E i \in 1..Len(items) : RLe(items[i].Timestamp, t)
      THEN (CHOOSE i \in 1..Len(items) :
               /\ RLe(items[i].Timestamp, t)
               /\ \A j \in 1..Len(items) :
                     RLe(items[j].Timestamp, t) => j <= i) - 1
      ELSE NoIndex

\* The segment has a point at or before the instant and a point after it.
Contains(items, t) ==
    \E i \in 1..(Len(items) - 1) :
        RLe(items[i].Timestamp, t) /\ RLt(t, items[i + 1].Timestamp)

\* Both look-ups of GetSegmentRange succeed in the segment.
BothFound(items, start, duration) ==
    LET first == GetClosestItemOf(items, start, 0, TrackItem)
    IN  /\ first.found
        /\ GetClosestItemOf(items, TimeT(RAdd(Dbl(start), duration)),
                            first.nextItem, first.item).found

\* C16: when GetSegmentRange(segments, start, duration) succeeds, the segment
\* it returns is the first of the list in which both look-ups succeed,
\* startIndex is the latest point with timestamp <= start, endIndex is the
\* latest point of that segment with timestamp <= start + duration, and
\* startIndex <= endIndex; it fails when no single segment contains both
\* instants.
C16_SegmentRange ==
    [][\A start \in 0..MaxTime, duration \in Durations :
          GetSegmentRange(start, duration) =>
              /\ rangeFound' = "true" =>
                    /\ range'.segment \in 1..Len(segments)
                    /\ BothFound(segments[range'.segment], start, duration)
                    /\ \A k \in 1..(range'.segment - 1) :
                          ~BothFound(segments[k], start, duration)
                    /\ range'.startIndex =
                          Latest(segments[range'.segment], Dbl(start))
                    /\ range'.endIndex =
                          Latest(segments[range'.segment],
                                 RAdd(Dbl(start), duration))
                    /\ range'.startIndex <= range'.endIndex
              /\ (\A k \in 1..Len(segments) :
                     ~(/\ Contains(segments[k], Dbl(start))
                       /\ Contains(segments[k], RAdd(Dbl(start), duration))))
                    => rangeFound' = "false"]_vars

\* ------------------------------------------------------------------------
\* Properties of the idle split
\* ------------------------------------------------------------------------
RECURSIVE Concat(_)
\* The point sequences of a list of segments, one after the other.
Concat(segs) == IF Len(segs) = 0 THEN <<>> ELSE segs[1] \o Concat(Tail(segs))

\* C17: SplitIdleSegments on a non-empty segment and an empty output list
\* completes, the point counts of the sub-segments sum to the point count of
\* the input, no sub-segment is empty, and the sub-segments concatenated in
\* output order are the input point sequence.
C17_Lossless ==
    [][(SplitIdleSegments /\ Len(seg) >= 1 /\ idleSegments = <<>>) =>
          /\ ~aborted'
          /\ TotalSize(idleSegments') = Len(seg)
          /\ \A k \in 1..Len(idleSegments') : Len(idleSegments'[k]) >= 1
          /\ Concat(idleSegments') = seg]_vars

\* A full segment was split into several sub-segments.
C17_Witness ==
    /\ ~aborted
    /\ Len(seg) = MaxPoints
    /\ Len(idleSegments) >= 2
    /\ Concat(idleSegments) = seg

\* The 0-based index in the input of the first point of sub-segment k.
Offset(out, k) == TotalSize(SubSeq(out, 1, k - 1))

\* C18: with idle(0) = false and idle(i) = both deltas to point i-1 below
\* epsilon, every sub-segment SplitIdleSegments produces holds points of one
\* idle value only, and two adjacent sub-segments have different idle values,
\* also when the last point of the input changes state.
C18_MaximalRuns ==
    [][(SplitIdleSegments /\ Len(seg) >= 1 /\ idleSegments = <<>>) =>
          /\ \A k \in 1..Len(idleSegments') :
                \A i \in 0..(Len(idleSegments'[k]) - 1) :
                    idle(seg, Offset(idleSegments', k) + i) =
                        idle(seg, Offset(idleSegments', k))
          /\ \A k \in 1..(Len(idleSegments') - 1) :
                idle(seg, Offset(idleSegments', k)) #
                    idle(seg, Offset(idleSegments', k + 1))]_vars

\* Two consecutive points of the items share a timestamp.
SharedTimestamp(items) ==
    \E i \in 1..(Len(items) - 1) : items[i].Timestamp = items[i + 1].Timestamp

\* C19: if two consecutive points of a segment share a timestamp, Interpolate
\* returns no segment and no partial one, LoadFromFile returns false and does
\* not store the segment, and LoadSegments reports the failure to its caller.
C19_FailurePropagated ==
    [][/\ \A f \in Frequencies :
            (Interpolate(f) /\ SharedTimestamp(seg))
                => (interp'.returned = "null" /\ interp'.items = <<>>)
       /\ \A fps \in Frequencies, splitIdleParts \in BOOLEAN :
            (LoadSegments(fps, splitIdleParts) /\ SharedTimestamp(seg))
                => /\ loadFromFile' = "false"
                   /\ Len(m_trackSegments') < Len(gpxFiles[1])
                   /\ loadSegments' = "false"]_vars

\* The fields Interpolate assigns.
SamePoint(x, y) ==
    /\ x.Timestamp = y.Timestamp
    /\ x.Latitude = y.Latitude
    /\ x.Longitude = y.Longitude
    /\ x.Speed = y.Speed
    /\ x.Elevation = y.Elevation
    /\ x.Bearing = y.Bearing
    /\ x.IsTrackStart = y.IsTrackStart
    /\ x.IsSegmentStart = y.IsSegmentStart

\* A segment of at least two points with strictly increasing timestamps; the
\* timestamps of a parsed segment are whole seconds.
Increasing(items) == Len(items) >= 2 /\ StrictlyIncreasing(items)

RunStarts(infos) ==
    {k \in 1..Len(infos) : k = 1 \/ infos[k - 1].FileId # infos[k].FileId}

RunStart(infos, n) ==
    CHOOSE k \in RunStarts(infos) :
        Cardinality({x \in RunStarts(infos) : x <= k}) = n

RunEnd(infos, k) ==
    CHOOSE m \in k..Len(infos) :
        /\ \A x \in k..m : infos[x].FileId = infos[k].FileId
        /\ m = Len(infos) \/ infos[m + 1].FileId # infos[k].FileId

RECURSIVE FrameSum(_, _, _)
\* The sum of the frame counts of the k-th to the m-th element.
FrameSum(infos, k, m) ==
    IF k > m THEN 0 ELSE infos[k].FrameCount + FrameSum(infos, k + 1, m)

\* C12: when ComputeMapSegmentsForGpxVideos succeeds it has appended one
\* descriptor per maximal run of consecutive inputs with the same file id;
\* the descriptor has the file id, sequence number and start time of the
\* run's first file, the sum of the run's frame counts, and as Duration
\* (start of the run's last file + its duration) - start of the run's first
\* file; the frame counts of the outputs add up to those of the inputs.
C12_OnePerRun ==
    [][(ComputeMapSegmentsForGpxVideos /\ matched' = "true")
         => /\ Len(segmentInfo') = Cardinality(RunStarts(videoInfo))
            /\ \A n \in 1..Len(segmentInfo') :
                 LET k == RunStart(videoInfo, n)
                     m == RunEnd(videoInfo, k)
                     d == segmentInfo'[n]
                 IN  /\ d.FileId = videoInfo[k].FileId
                     /\ d.FileSequence = videoInfo[k].FileSequence
                     /\ d.Start = gpxInfo[k].Start
                     /\ d.FrameCount = FrameSum(videoInfo, k, m)
                     /\ d.Duration =
                          RSub(RAdd(Dbl(gpxInfo[m].Start), gpxInfo[m].Duration),
                               Dbl(gpxInfo[k].Start))
            /\ FrameSum(segmentInfo', 1, Len(segmentInfo'))
                 = FrameSum(videoInfo, 1, Len(videoInfo))]_vars

\* Three files given with their gpx times, the first two merged into one
\* descriptor across a pause and the third one on its own.
C12_Witness ==
    /\ matched = "true"
    /\ Len(videoInfo) = MaxFiles
    /\ Len(segmentInfo) = 2
    /\ videoInfo[1].Start # gpxInfo[1].Start
    /\ segmentInfo[1].Start = gpxInfo[1].Start
    /\ segmentInfo[1].FrameCount > videoInfo[1].FrameCount
    /\ RLt(RAdd(gpxInfo[1].Duration, gpxInfo[2].Duration),
           segmentInfo[1].Duration)

\* Inside a run of one file id, some file's sequence number is not the
\* previous one's plus one, or its frame rate is not that of the run's first
\* file.
Inconsistent(infos) ==
    \E k \in 2..Len(infos) :
        /\ infos[k].FileId = infos[k - 1].FileId
        /\ \/ infos[k].FileSequence # infos[k - 1].FileSequence + 1
           \/ \E s \in RunStarts(infos) :
                 /\ s < k
                 /\ RunEnd(infos, s) >= k
                 /\ infos[k].FrameRate # infos[s].FrameRate

\* Either overload is called.
Computes == ComputeMapSegmentsForGpxVideos \/ ComputeMapSegmentsForVideos

\* C13 as stated: on such inputs ComputeMapSegmentsForGpxVideos returns
\* failure.
C13_ReturnsFailure ==
    [][(Computes /\ Inconsistent(videoInfo)) => matched' = "false"]_vars

\* C13, amended: on such inputs ComputeMapSegmentsForGpxVideos never returns
\* success; it returns failure, unless the build keeps assert() and an
\* assertion on an earlier file ends the process.
C13_NeverSucceeds ==
    [][(Computes /\ Inconsistent(videoInfo))
         => \/ matched' = "false"
            \/ asserts /\ aborted' /\ matched' = NotCalled]_vars

\* Three files of one recording in sequence, the third with the frame rate of
\* the first written as another fraction; the call returned false.
C13_Witness ==
    /\ matched = "false"
    /\ Len(videoInfo) = MaxFiles
    /\ Len(gpxInfo) = Len(videoInfo)
    /\ \A k \in 2..MaxFiles :
         /\ videoInfo[k].FileId = videoInfo[1].FileId
         /\ videoInfo[k].FileSequence = videoInfo[k - 1].FileSequence + 1
    /\ videoInfo[2].FrameRate = videoInfo[1].FrameRate
    /\ videoInfo[MaxFiles].FrameRate # videoInfo[1].FrameRate
    /\ segmentInfo = <<>>

\* C21: after UpdateDistances on a non-empty segment, also one of a single
\* point, the first point's TotalDistance is the segment's initialDistance,
\* every later point's TotalDistance is that of its predecessor plus its own
\* DistanceDelta, and the TotalDistance values do not decrease.
C21_Cumulative ==
    (segOp = "UpdateDistances" /\ Len(seg) >= 1)
        => /\ seg[1].TotalDistance = seg_initialDistance
           /\ \A i \in 2..Len(seg) :
                /\ seg[i].TotalDistance =
                      RAdd(seg[i - 1].TotalDistance, seg[i].DistanceDelta)
                /\ RLe(seg[i - 1].TotalDistance, seg[i].TotalDistance)

\* C22: after UpdateBearing every point that has a successor has the forward
\* azimuth to that successor as its bearing, except that a point with at
\* least one point before it and an azimuth of exactly 0 has the bearing of
\* the point before it. The index i is 1-based here.
C22_ForwardAzimuth ==
    segOp = "UpdateBearing"
        => \A i \in 1..(Len(seg) - 1) :
             LET b == bearing(seg[i].Latitude, seg[i].Longitude,
                              seg[i + 1].Latitude, seg[i + 1].Longitude)
             IN  IF b = Dbl(0) /\ i > 1
                   THEN seg[i].Bearing = seg[i - 1].Bearing
                   ELSE seg[i].Bearing = b

\* C23: whatever AddItem, AppendFront and UpdateDistances calls were made on a
\* segment, the timestamps of its points do not decrease in sequence order,
\* and an AddItem of a point older than the last point is refused.
C23_Ordered ==
    [][/\ NonDecreasing(seg')
       /\ \A it \in SegmentItems :
            (~AddItemAllowed(seg, it) /\ SegmentAddItem(it))
                => (aborted' /\ seg' = seg)]_vars

\* C24 as stated: for every list of segments, in whatever time order,
\* MergeSegments completes and returns the points of the inputs concatenated
\* in list order, as many as the inputs hold together.
C24_AnyOrder ==
    [][MergeSegments
         => /\ wholeTrack'.returned = "segment"
            /\ wholeTrack'.items = Concat(segments)
            /\ Len(wholeTrack'.items) = TotalSize(segments)]_vars

\* C24, amended: MergeSegments returns the points of the inputs concatenated
\* in list order, as many as the inputs hold together, unless the build
\* keeps assert() and the concatenation has a point older than the point
\* before it; then the assert of AddItem ends the process.
C24_ListOrder ==
    [][MergeSegments
         => IF asserts /\ ~NonDecreasing(Concat(segments))
              THEN aborted' /\ wholeTrack'.returned = "abort"
              ELSE /\ ~aborted'
                   /\ wholeTrack'.returned = "segment"
                   /\ wholeTrack'.items = Concat(segments)
                   /\ Len(wholeTrack'.items) = TotalSize(segments)]_vars

\* Two full segments merged with the later one first.
C24_Witness ==
    /\ wholeTrack.returned = "segment"
    /\ Len(segments) = 2
    /\ Len(segments[1]) = MaxPoints
    /\ Len(segments[2]) = MaxPoints
    /\ segments[1] # segments[2]
    /\ ~NonDecreasing(wholeTrack.items)
    /\ SubSeq(wholeTrack.items, 1, MaxPoints) = segments[1]

\* C29: the cumulative distance is continuous and does not decrease across a
\* loaded track: every segment stored by LoadFromFile after the first starts
\* with the last TotalDistance of the segment stored before it, the first
\* segment of a file starts from the TotalDistance() of the file before it,
\* and this holds for segments of any size, one-point segments loaded without
\* interpolation included. Without splitting, the segments vector of
\* LoadSegments holds the stored segments of all files in order.
C29_Continuous ==
    [][\A fps \in {0} \cup Frequencies :
          LoadSegments(fps, FALSE)
              => /\ \A k \in 2..Len(segments') :
                      segments'[k][1].TotalDistance =
                          segments'[k - 1][Len(segments'[k - 1])].TotalDistance
                 /\ \A k \in 1..Len(segments') :
                      \A i \in 2..Len(segments'[k]) :
                          RLe(segments'[k][i - 1].TotalDistance,
                              segments'[k][i].TotalDistance)]_vars

\* ------------------------------------------------------------------------
\* C27: with at least one entry, whatever the calls before and whatever the
\* override callback answers, the MapIndex written to the frame is smaller
\* than the number of entries; an override index that is out of range
\* selects the last entry; with a single entry the callback is not
\* evaluated.
\* ------------------------------------------------------------------------
C27_IndexInRange ==
    [][\A fps \in FpsSet, cb \in CallbackResults :
         ComputeStateCall(nframes, fps, cb) =>
           /\ mapIndex' < Len(sw.m_maps)
           /\ (Len(sw.m_maps) = 1 => ~asked')
           /\ (asked' /\ cb.override /\ cb.index >= Len(sw.m_maps)
                 => mapIndex' = Len(sw.m_maps) - 1)]_vars

\* An out-of-range override has just selected the last of several entries.
C27_Witness ==
    /\ nframes > 1
    /\ asked
    /\ lastCb.override
    /\ lastCb.index >= Len(sw.m_maps)
    /\ Len(sw.m_maps) > 1
    /\ mapIndex = Len(sw.m_maps) - 1

\* ------------------------------------------------------------------------
\* C30: an override replaces m_currentMapIndex itself and leaves the
\* counter to the cycle, which decrements it on every new second. On the
\* first new second on which the callback does not override any more, the
\* index stays the last overridden one if the decremented counter is not
\* zero, and otherwise becomes its cyclic successor with the counter reset
\* to the successor's duration.
\* ------------------------------------------------------------------------
Successor(s) == (s.m_currentMapIndex + 1) % Len(s.m_maps)

Decremented(s) ==
    IF s.m_remainingDuration - 1 = 0
      THEN s.m_maps[Successor(s) + 1]
      ELSE s.m_remainingDuration - 1

C30_OverrideMovesCycle ==
    [][\A fps \in FpsSet, cb \in CallbackResults :
         (/\ nframes > 0
          /\ sw.m_prevSecond >= 0
          /\ asked'
          /\ ComputeStateCall(nframes, fps, cb)) =>
           /\ sw'.m_remainingDuration = Decremented(sw)
           /\ (lastCb.override /\ ~cb.override =>
                 /\ sw.m_currentMapIndex
                      = Selected(lastCb.index, Len(sw.m_maps))
                 /\ mapIndex' = IF sw.m_remainingDuration - 1 = 0
                                  THEN Successor(sw)
                                  ELSE sw.m_currentMapIndex)]_vars

\* The callback has just stopped overriding, the counter reached zero on
\* that second and the successor of the overridden entry was selected with
\* its own duration.
C30_Witness ==
    /\ nframes > 2
    /\ asked
    /\ released
    /\ Len(sw.m_maps) > 1
    /\ mapIndex = (Selected(lastCb.index, Len(sw.m_maps)) + 1) % Len(sw.m_maps)
    /\ sw.m_remainingDuration = sw.m_maps[mapIndex + 1]
    /\ sw.m_remainingDuration > 1

\* ------------------------------------------------------------------------
\* C25: if GenerateFrame marked an encoding task failed, then once all tasks
\* have finished and main has returned, the task's output file is among the
\* collected failures and the exit status is not zero.
\* ------------------------------------------------------------------------
C25_FailureReported ==
    \A f \in OutputFiles :
        (mainReturned # NotCalled /\ encoding[f].bound_failed) =>
            /\ \E i \in 1..Len(s_filesWithErrors) : s_filesWithErrors[i] = f
            /\ mainReturned # "0"

\* ------------------------------------------------------------------------
\* C28: for every matched descriptor of n frames the chunking loop ends and
\* has pushed ceil(n / c) tasks, c being the frames per chunk, numbered
\* 0, 1, 2, ... in the order pushed; each holds between 1 and c frames, each
\* starts where the one before ended, the first at frame 0 and the last
\* ending at frame n.
\* ------------------------------------------------------------------------
CeilDiv(n, c) == (n + c - 1) \div c

TasksOf(v) == SelectSeq(tasks, LAMBDA p : p.fileSequenceId = v.FileId)

ChunksOf(v) ==
    LET T == TasksOf(v)
    IN  /\ Len(T) = CeilDiv(v.FrameCount, FramesPerChunk)
        /\ \A i \in 1..Len(T) :
             /\ T[i].segmentSequenceId = i - 1
             /\ T[i].count >= 1
             /\ T[i].count <= FramesPerChunk
             /\ T[i].first = IF i = 1 THEN 0
                                      ELSE T[i - 1].first + T[i - 1].count
        /\ Len(T) > 0 => T[Len(T)].first + T[Len(T)].count = v.FrameCount

C28_ChunksCoverFrames ==
    /\ FramesPerChunk > 0
    /\ [](chunkPc = "returned" =>
            \A k \in 1..Len(videos) : videos[k].matched => ChunksOf(videos[k]))
    /\ <>(chunkPc = "returned")

\* The function has returned after cutting a descriptor of two whole chunks
\* and one frame into three tasks, the last of one frame.
C28_Witness ==
    /\ chunkPc = "returned"
    /\ \E k \in 1..Len(videos) :
         /\ videos[k].matched
         /\ videos[k].FrameCount = 2 * FramesPerChunk + 1
         /\ Len(TasksOf(videos[k])) = 3
         /\ TasksOf(videos[k])[3].count = 1

\* ------------------------------------------------------------------------
\* C26: under fair scheduling, once the owner's DownloadTile has returned,
\* with success or with failure, every caller waiting in GetTile for that
\* tile returns. The owner does not leave GetTile with its tile still
\* LOADING, and a caller that went to sleep after testing the state under
\* the tile's mutex is among those the owner's notify_all wakes.
\* ------------------------------------------------------------------------
\* The thread is on the waiter path of GetTile, before or inside m_cv.wait.
Waiting(t) == pc[t] \in {"wait", "sleeping", "woken"}

\* The thread owns tile i and is between the insertion of the placeholder
\* and the end of Tile::Load or Tile::Fail.
Owning(t, i) == ret[t] = i /\ ~found[t] /\ pc[t] # "idle"

\* The DownloadTile call of the owner of tile i has returned: true after
\* Tile::Load, or false, after which GetTile calls Tile::Fail.
DownloadReturned(i) ==
    \/ heap[i].state = LOADED /\ \A t \in Threads : ~Owning(t, i)
    \/ heap[i].state = FAILED
    \/ \E t \in Threads : Owning(t, i) /\ pc[t] = "fail"

OwnerLeavesLoading ==
    \A i \in 1..Len(heap) :
        heap[i].state = LOADING => \E t \in Threads : Owning(t, i)

NoLostWakeup ==
    \A t \in Threads :
        pc[t] = "sleeping" =>
            /\ t \in heap[ret[t]].waiters
            /\ \/ heap[ret[t]].state = LOADING
               \/ \E u \in Threads :
                    Owning(u, ret[t]) /\ pc[u] \in {"load_notify", "fail_notify"}

C26_WaitersReturn ==
    /\ [](OwnerLeavesLoading /\ NoLostWakeup)
    /\ \A t \in Threads :
         (Waiting(t) /\ DownloadReturned(ret[t])) ~> (pc[t] = "idle")

\* A caller that slept on a tile has been woken after the owner failed the
\* tile and returned; it is about to test the state again.
C26_Witness ==
    \E t, u \in Threads :
        /\ pc[t] = "woken"
        /\ found[t]
        /\ ret[u] = ret[t]
        /\ ~found[u]
        /\ pc[u] = "idle"
        /\ heap[ret[t]].state = FAILED

====
